---- MODULE Spec2Model ----
\* Session-scoped dispatch gateway of the AAP MCP server (the server's index
\* module) and the access logger (ToolLogger).
\* Every await of the handlers is a point where other handlers may run, so a
\* handler is one action per stretch of code between two awaits.
EXTENDS Integers, Sequences, FiniteSets, Bags, TLC

\* ------------------------------------------------------------------ bounds
MaxTransports == 2      \* initialization requests (one transport each)
MaxInFlight == 2        \* List/Call requests being handled at the same time

\* ------------------------------------------------------------- JS values
Undefined == "undefined"

\* JS values are tagged by their type ("num:0", "str:7", "bool:false", ...).
\* JS truthiness (ToBoolean) of a tagged value.
Truthy(v) == v \notin {Undefined, "num:0", "str:", "bool:false"}

\* JS String(v) of a tagged value.
Str(v) ==
  CASE v = "num:0" -> "0"
    [] v = "str:" -> ""
    [] v = "str:7" -> "7"
    [] v = "bool:false" -> "false"
    [] OTHER -> "undefined"

Range(s) == {s[i] : i \in DOMAIN s}

\* tool.method.toUpperCase(); methods are the lower-case OpenAPIV3.HttpMethods.
ToUpperCase(m) ==
  CASE m = "get" -> "GET"
    [] m = "put" -> "PUT"
    [] m = "post" -> "POST"
    [] m = "delete" -> "DELETE"
    [] m = "options" -> "OPTIONS"
    [] m = "head" -> "HEAD"
    [] m = "patch" -> "PATCH"
    [] m = "trace" -> "TRACE"
    [] OTHER -> m

\* ---------------------------------------------------------- configuration
\* localConfig.categories: category name -> list of tool names.  "ghostTool"
\* names no operation of any document; "headPing" and "traceRoute" are in no
\* category.
allCategories ==
  [c \in {"readonly", "admin"} |->
     IF c = "readonly" THEN <<"getWidget", "auditLog", "ghostTool">>
     ELSE <<"getWidget", "deleteWidget", "createWidget">>]

\* Mutant: DELETE is left in the read-only list.
allowedOperations_DeleteAllowed(allowWrite) ==
  IF allowWrite
  THEN {"GET", "POST", "PUT", "PATCH", "DELETE", "HEAD", "OPTIONS"}
  ELSE {"GET", "HEAD", "OPTIONS", "DELETE"}

\* allowedOperations, from allowWriteOperations.
allowedOperations(allowWrite) ==
  IF allowWrite
  THEN {"GET", "POST", "PUT", "PATCH", "DELETE", "HEAD", "OPTIONS"}
  ELSE {"GET", "HEAD", "OPTIONS"}

\* ------------------------------------------------------------ the catalog
\* One loaded service document each; the tools are what extractToolsFromApi
\* returns for the document: name, description, the serialized length of the
\* input schema, lower-case method, path template (its segments), parameters.
Param(n, loc) == [name |-> n, in |-> loc]

Tool(n, d, len, m, path, params) ==
  [name |-> n, description |-> d, inputSchemaLen |-> len, method |-> m,
   pathTemplate |-> path, parameters |-> params, logs |-> <<>>]

ExtractedTools(service) ==
  IF service = "controller"
  THEN << Tool("auditLog", "Audit", 30, "get", <<"audit">>,
               <<Param("page", "query")>>),
          Tool("getWidget", "Get one", 60, "get", <<"widgets", "{id}">>,
               <<Param("id", "path"), Param("page", "query")>>),
          Tool("deleteWidget", "Delete", 40, "delete", <<"widgets", "{id}">>,
               <<Param("id", "path")>>),
          Tool("createWidget", "Create", 90, "post", <<"widgets">>, <<>>) >>
  ELSE << Tool("headPing", "Ping", 2, "head", <<"ping">>, <<>>),
          Tool("traceRoute", "Trace", 20, "trace", <<"route">>, <<>>) >>

\* loadOpenApiSpecs(servicesConfig, BASE_URL): the services, in order.
openApiSpecs == <<"controller", "gateway">>

\* spec.reformatFunc(tool): the loader's per-service hook; it keeps the tool
\* or drops it.  Here it drops the audit operation and keeps the others.
reformatFunc(tool) == tool.pathTemplate # <<"audit">>

\* JSON.stringify({name, description, inputSchema}).length: the 43 characters
\* of punctuation and keys plus the three values.
ToolSize(tool) ==
  43 + Len(tool.name) + Len(tool.description) + tool.inputSchemaLen

\* The callback of tools.filter in generateTools, applied to one tool: stamps
\* the service, and either keeps the tool or drops it with a diagnostic.
FilterTool(allowWrite, service, tool) ==
  LET stamped == [tool @@ [service |-> service] EXCEPT !.logs = tool.logs]
  IN IF ToUpperCase(tool.method) \notin allowedOperations(allowWrite)
     THEN [keep |-> FALSE, byPolicy |-> TRUE,
           tool |-> [stamped EXCEPT !.logs =
              Append(@, [severity |-> "INFO",
                         msg |-> "operation disabled by configuration"])]]
     ELSE [keep |-> reformatFunc(stamped), byPolicy |-> FALSE,
           tool |-> stamped]

\* All tools of all services after the filter callback ran on them, in order.
RECURSIVE FilteredFrom(_, _)
FilteredFrom(allowWrite, i) ==
  IF i > Len(openApiSpecs) THEN <<>>
  ELSE LET tools == ExtractedTools(openApiSpecs[i])
       IN [k \in 1..Len(tools) |->
             FilterTool(allowWrite, openApiSpecs[i], tools[k])]
          \o FilteredFrom(allowWrite, i + 1)

\* rawToolList: the kept tools, in document order.
rawToolList(allowWrite) ==
  LET all == FilteredFrom(allowWrite, 1)
  IN [r \in 1..Len(SelectSeq(all, LAMBDA f : f.keep)) |->
        SelectSeq(all, LAMBDA f : f.keep)[r].tool]

\* toolsWithSize.sort((a, b) => b.size - a.size): stable, descending.
RECURSIVE InsertBySize(_, _)
InsertBySize(sorted, tool) ==
  IF sorted = <<>> THEN <<tool>>
  ELSE IF Head(sorted).size >= tool.size
       THEN <<Head(sorted)>> \o InsertBySize(Tail(sorted), tool)
       ELSE <<tool>> \o sorted

RECURSIVE SortBySize(_)
SortBySize(tools) ==
  IF tools = <<>> THEN <<>>
  ELSE InsertBySize(SortBySize(SubSeq(tools, 1, Len(tools) - 1)),
                    tools[Len(tools)])

\* generateTools(): the aggregated catalog.
generateTools(allowWrite) ==
  LET raw == rawToolList(allowWrite)
  IN SortBySize([k \in 1..Len(raw) |-> raw[k] @@ [size |-> ToolSize(raw[k])]])

\* The tool objects the policy filter dropped, as the filter left them.
DroppedByPolicy(allowWrite) ==
  {f.tool : f \in {g \in Range(FilteredFrom(allowWrite, 1)) : g.byPolicy}}

\* Mutant: a session bound to "all" is given the whole catalog.
filterToolsByCategory_AllIsEverything(tools, category) ==
  IF category = "all" THEN tools
  ELSE SelectSeq(tools, LAMBDA tool : tool.name \in Range(allCategories[category]))

\* filterToolsByCategory(tools, category)
filterToolsByCategory(tools, category) ==
  LET toolsSelection ==
        IF category = "all"
        THEN UNION {Range(allCategories[c]) : c \in DOMAIN allCategories}
        ELSE Range(allCategories[category])
  IN SelectSeq(tools, LAMBDA tool : tool.name \in toolsSelection)

\* ------------------------------------------------------------------ state
VARIABLES
  allowWriteOperations,  \* configuration flag
  recordApiQueries,      \* configuration flag; toolLogger exists iff TRUE
  allTools,              \* the aggregated catalog (a sequence of tools)
  droppedTools,          \* tool objects the policy filter of generateTools dropped
  transports,            \* the StreamableHTTPServerTransport objects and the
                         \* closure of their onsessioninitialized callback
  sessionData,           \* session registry: session id -> session record
  servers,               \* server registry: the session ids that are its keys
  calls,                 \* bag of the List/Call requests being handled
  lastResp,              \* what the express handler of the last step answered
  finished,              \* the List/Call the last step completed, if any
  shutdown,              \* SIGINT handler: not started ("running"), in its
                         \* loop, awaiting a close or "exited", and the keys
                         \* its for-in loop enumerates
  apiDocs,               \* the OpenAPI documents handed to extractToolsFromApi
  defaultInclude,        \* the defaultInclude argument of extractToolsFromApi
  extraction,            \* extractToolsFromApi at work: its document, its
                         \* position in the two loops, tools and usedNames
  rawTools,              \* rawToolList of generateTools
  schemaGraph,           \* the schema objects handed to the schema translation
  translation            \* mapOpenApiSchemaToJsonSchema at work: its calls,
                         \* seen, the warnings written and what it returned

vars == <<allowWriteOperations, recordApiQueries, allTools, droppedTools,
          transports, sessionData, servers, calls, lastResp, finished, shutdown,
          apiDocs, defaultInclude, extraction, rawTools, schemaGraph,
            translation>>

\* What is fixed once the server listens.
config == <<allowWriteOperations, recordApiQueries, allTools, droppedTools,
            apiDocs, defaultInclude, extraction, rawTools, schemaGraph,
            translation>>

TransportIds == 1..MaxTransports
SessionIds == 1..MaxTransports
NoSession == 0       \* transport.sessionId / the mcp-session-id header unset

\* ----------------------------------------------------------------- inputs
\* The Authorization header is <<scheme with its blank, the rest>>, and <<>>
\* when the header is absent.

\* extractBearerToken(authHeader)
extractBearerToken(authHeader) ==
  IF authHeader # <<>> /\ authHeader[1] = "Bearer "
  THEN authHeader[2]
  ELSE Undefined

\* if (token): the empty string and undefined are falsy.
TokenPresent(token) == token # Undefined /\ token # ""

\* Initialization requests clients send: Authorization header, the :category
\* URL parameter (Undefined on /mcp) and the User-Agent header.
InitReq(a, c, u) == [authHeader |-> a, urlCategory |-> c, userAgent |-> u]

InitRequests ==
  { InitReq(<<"Bearer ", "tokA">>, "readonly", "curl"),
    InitReq(<<"Bearer ", "tokB">>, "bogus", Undefined),
    InitReq(<<>>, "admin", "curl"),
    InitReq(<<"Bearer ", "">>, Undefined, "curl"),
    InitReq(<<"Basic ", "dXNlcg">>, "readonly", "curl") }

\* Outcomes of the identity request of validateToken: a success status, a
\* non-success status, or a rejected fetch.
ValidationOutcomes == {"ok", "status401", "network"}

\* Mutant: the URL category is taken as it is, without looking it up.
RequestCategory_Unchecked(urlCategory) ==
  IF urlCategory # Undefined THEN urlCategory ELSE "all"

\* const category = Object.keys(allCategories).includes(req.params.category)
\*   ? req.params.category : "all"
RequestCategory(urlCategory) ==
  IF urlCategory \in DOMAIN allCategories THEN urlCategory ELSE "all"

\* req.headers["user-agent"] || "unknown"
RequestUserAgent(header) == IF header = Undefined THEN "unknown" ELSE header

\* Tool arguments of a Call: values of "id", "page" and "requestBody".
Args(id, page, body) == [id |-> id, page |-> page, requestBody |-> body]

\* args[param.name]
ArgOf(args, n) ==
  CASE n = "id" -> args.id
    [] n = "page" -> args.page
    [] n = "requestBody" -> args.requestBody
    [] OTHER -> Undefined

\* The tools/call requests clients send.
CallRequests ==
  { [name |-> "getWidget", args |-> Args("str:7", "num:0", Undefined)],
    [name |-> "getWidget", args |-> Args("num:0", Undefined, Undefined)],
    [name |-> "deleteWidget", args |-> Args("str:7", Undefined, Undefined)],
    [name |-> "createWidget", args |-> Args(Undefined, Undefined, "obj:{}")],
    [name |-> "headPing", args |-> Args(Undefined, Undefined, Undefined)],
    [name |-> "noSuchTool", args |-> Args(Undefined, Undefined, Undefined)] }

\* What the upstream service does with a request: fetch rejects, or a status
\* and content type arrive with a body that is valid JSON or is not.
Upstream(status, ctype, validJson) ==
  [failed |-> FALSE, status |-> status, contentType |-> ctype,
   validJson |-> validJson]

FetchFailed == [failed |-> TRUE]

UpstreamOutcomes ==
  { FetchFailed,
    Upstream(200, "application/json", TRUE),
    Upstream(200, "text/html", FALSE),
    Upstream(404, "application/json", TRUE),
    Upstream(502, "application/json", FALSE) }

\* ------------------------------------------------------------ the registry
NoSessions == [s \in {} |-> 0]

\* storeSessionData(sessionId, token, userAgent, category, transport)
storeSessionData(sd, sessionId, token, userAgent, category, transport) ==
  [s \in DOMAIN sd \cup {sessionId} |->
     IF s = sessionId
     THEN [token |-> token, userAgent |-> userAgent, category |-> category,
           transport |-> transport]
     ELSE sd[s]]

\* Mutant: the delete is lost.
DeleteKey_Lost(sd, sid) == sd

\* delete sessionData[sid]
DeleteKey(sd, sid) == [s \in DOMAIN sd \ {sid} |-> sd[s]]

\* sessionId && sessionData[sessionId]
HasSession(sd, sid) == sid # NoSession /\ sid \in DOMAIN sd

FreshTransport ==
  [state |-> "unused", sessionId |-> NoSession, authHeader |-> <<>>,
   userAgent |-> Undefined, urlCategory |-> Undefined, category |-> "all",
   init |-> "none"]

Resp(op, sid, status) == [op |-> op, sessionId |-> sid, status |-> status]

NoResp == Resp("none", NoSession, 0)

NoCall == [pc |-> "none"]

\* No SIGINT arrived yet.
NoShutdown == [pc |-> "running", keys |-> {}]

\* No call of extractToolsFromApi is active.
NotExtracting == [spec |-> 0]

\* No schema is being translated.
NoGraph == [root |-> [type |-> "undefined"]]

NotTranslating == [pc |-> "idle"]

Init ==
  /\ allowWriteOperations \in BOOLEAN
  /\ recordApiQueries \in BOOLEAN
  /\ allTools = generateTools(allowWriteOperations)
  /\ droppedTools = DroppedByPolicy(allowWriteOperations)
  /\ transports = [t \in TransportIds |-> FreshTransport]
  /\ sessionData = NoSessions
  /\ servers = {}
  /\ calls = EmptyBag
  /\ lastResp = NoResp
  /\ finished = NoCall
  /\ shutdown = NoShutdown
  /\ apiDocs = <<>>
  /\ defaultInclude = TRUE
  /\ extraction = NotExtracting
  /\ rawTools = <<>>
  /\ schemaGraph = NoGraph
  /\ translation = NotTranslating

\* Nothing is waiting to be written to a client.
Answered == lastResp = NoResp /\ finished = NoCall

\* The process runs, the SIGINT handler (if it started) is suspended, and the
\* answer of the previous step has been written.
Serving == shutdown.pc \in {"running", "awaiting"} /\ Answered

\* The answer a step produced is written to the client, in the same turn of
\* the event loop as the step.
Respond ==
  /\ ~Answered
  /\ lastResp' = NoResp
  /\ finished' = NoCall
  /\ UNCHANGED <<config, transports, sessionData, servers, calls, shutdown>>

\* sessionIdGenerator: () => randomUUID(): an identifier no transport has.
NewSessionId ==
  CHOOSE s \in SessionIds : \A t \in TransportIds : transports[t].sessionId # s

\* ------------------------------------------------ mcpPostHandler, no session
\* POST without mcp-session-id and with an initialize body: a transport is
\* created and connected, the SDK generates its session id and runs
\* onsessioninitialized up to the await of validateToken (or to its end when
\* there is no bearer token: nothing is stored and the callback returns).
PostInitialize(t, req) ==
  /\ Serving
  /\ transports[t].state = "unused"
  /\ \A u \in TransportIds : u < t => transports[u].state # "unused"
  /\ LET sid == NewSessionId
         token == extractBearerToken(req.authHeader)
     IN /\ transports' = [transports EXCEPT ![t] =
              [state |-> "open", sessionId |-> sid,
               authHeader |-> req.authHeader, userAgent |-> req.userAgent,
               urlCategory |-> req.urlCategory,
               category |-> RequestCategory(req.urlCategory),
               init |-> IF TokenPresent(token) THEN "validating" ELSE "notoken"]]
        /\ lastResp' = IF TokenPresent(token) THEN NoResp
                       ELSE Resp("initialize", sid, 200)
  \* servers[sid] = server is guarded by transport.sessionId, which is unset
  \* until the SDK handles the request, after server.connect: nothing is added.
  /\ servers' = servers
  /\ finished' = NoCall
  /\ UNCHANGED <<config, sessionData, calls, shutdown>>

\* Mutant: the session is stored whatever the identity check answered.
ValidateTokenReturns_IgnoringOutcome(t, outcome) ==
  /\ Serving
  /\ transports[t].init = "validating"
  /\ LET tr == transports[t]
     IN /\ sessionData' = storeSessionData(sessionData, tr.sessionId,
              extractBearerToken(tr.authHeader),
              RequestUserAgent(tr.userAgent), tr.category, t)
        /\ transports' = [transports EXCEPT ![t].init =
                             IF outcome = "ok" THEN "stored" ELSE outcome]
        /\ lastResp' = Resp("initialize", tr.sessionId, 200)
  /\ finished' = NoCall
  /\ UNCHANGED <<config, servers, calls, shutdown>>

\* validateToken returns or throws inside onsessioninitialized: on success the
\* session is stored; otherwise the callback rethrows and nothing is stored.
ValidateTokenReturns(t, outcome) ==
  /\ Serving
  /\ transports[t].init = "validating"
  /\ LET tr == transports[t]
     IN IF outcome = "ok"
        THEN /\ sessionData' = storeSessionData(sessionData, tr.sessionId,
                   extractBearerToken(tr.authHeader),
                   RequestUserAgent(tr.userAgent), tr.category, t)
             /\ transports' = [transports EXCEPT ![t].init = "stored"]
             /\ lastResp' = Resp("initialize", tr.sessionId, 200)
        ELSE /\ sessionData' = sessionData
             /\ transports' = [transports EXCEPT ![t].init = outcome]
             /\ lastResp' = Resp("initialize", tr.sessionId, 400)
  /\ finished' = NoCall
  /\ UNCHANGED <<config, servers, calls, shutdown>>

\* POST that is neither for a registered session nor an initialization
\* request without session id: 400 "Bad Request: No valid session ID provided".
PostRejected(sid, isInit) ==
  /\ Serving
  /\ ~HasSession(sessionData, sid)
  /\ ~(sid = NoSession /\ isInit)
  /\ lastResp' = Resp("POST", sid, 400)
  /\ finished' = NoCall
  /\ UNCHANGED <<config, transports, sessionData, servers, calls, shutdown>>

\* ----------------------------------------------------------- List handler
InvalidSession == [type |-> "error", message |-> <<"Invalid or missing session ID">>]

\* tools: filteredTools.map(tool => ({name, description, inputSchema}))
ListResult(tools) ==
  [type |-> "tools",
   tools |-> [k \in 1..Len(tools) |->
                [name |-> tools[k].name, description |-> tools[k].description,
                 inputSchemaLen |-> tools[k].inputSchemaLen]]]

\* ListToolsRequestSchema handler, for extra.sessionId = sid
ListTools(sd, sid) ==
  IF ~HasSession(sd, sid)
  THEN InvalidSession
  ELSE ListResult(filterToolsByCategory(allTools, sd[sid].category))

\* Mutant: the List is served for the category of the URL the request came on.
PostListOn_RequestCategory(sid, req) ==
  /\ Serving
  /\ HasSession(sessionData, sid)
  /\ LET transport == sessionData[sid].transport
         extraSid == transports[transport].sessionId
     IN finished' = [pc |-> "done", kind |-> "list", sessionId |-> extraSid,
                     dispatched |-> FALSE, records |-> <<>>,
                     outcome |-> ListResult(filterToolsByCategory(allTools,
                                    RequestCategory(req.urlCategory)))]
  /\ lastResp' = NoResp
  /\ UNCHANGED <<config, transports, sessionData, servers, calls, shutdown>>

\* POST of tools/list carrying the id of a registered session, arriving as
\* request req (its Authorization header and the :category of its URL): the
\* handler computes authHeader and category of the request, which only the
\* closure of a new transport would use; the session's transport handles the
\* request and the SDK invokes the List handler in the same turn of the event
\* loop, with the transport's session id.
PostListOn(sid, req) ==
  /\ Serving
  /\ HasSession(sessionData, sid)
  /\ LET authHeader == req.authHeader
         category == RequestCategory(req.urlCategory)
         transport == sessionData[sid].transport
         extraSid == transports[transport].sessionId
     IN finished' = [pc |-> "done", kind |-> "list", sessionId |-> extraSid,
                     dispatched |-> FALSE, records |-> <<>>,
                     outcome |-> ListTools(sessionData, extraSid)]
  /\ lastResp' = NoResp
  /\ UNCHANGED <<config, transports, sessionData, servers, calls, shutdown>>

\* POST of tools/list carrying the id of a registered session, on any URL and
\* with any Authorization header.
PostList(sid) == \E req \in InitRequests : PostListOn(sid, req)

\* ----------------------------------------------------------- Call handler
\* Mutant: a name that matches no tool resolves to the first tool.
FindTool_DefaultsToFirst(tools, name) ==
  IF \E k \in 1..Len(tools) : tools[k].name = name
  THEN CHOOSE k \in 1..Len(tools) :
         /\ tools[k].name = name
         /\ \A j \in 1..(k - 1) : tools[j].name # name
  ELSE IF tools = <<>> THEN 0 ELSE 1

\* allTools.find(t => t.name === name): the index of the tool, 0 if none.
FindTool(tools, name) ==
  IF \E k \in 1..Len(tools) : tools[k].name = name
  THEN CHOOSE k \in 1..Len(tools) :
         /\ tools[k].name = name
         /\ \A j \in 1..(k - 1) : tools[j].name # name
  ELSE 0

\* url.replace(`{${name}}`, value): the first occurrence only.
ReplaceFirst(url, name, value) ==
  LET ph == "{" \o name \o "}"
  IN IF \E k \in 1..Len(url) : url[k] = ph
     THEN LET k == CHOOSE k \in 1..Len(url) :
                     url[k] = ph /\ \A j \in 1..(k - 1) : url[j] # ph
          IN [url EXCEPT ![k] = value]
     ELSE url

\* The loop over tool.parameters that substitutes the path parameters.
RECURSIVE SubstitutePath(_, _, _)
SubstitutePath(url, params, args) ==
  IF params = <<>> THEN url
  ELSE LET param == Head(params)
           next == IF param.in = "path" /\ Truthy(ArgOf(args, param.name))
                   THEN ReplaceFirst(url, param.name,
                                     Str(ArgOf(args, param.name)))
                   ELSE url
       IN SubstitutePath(next, Tail(params), args)

\* The loop over tool.parameters that appends the query parameters.
RECURSIVE QueryParams(_, _)
QueryParams(params, args) ==
  IF params = <<>> THEN <<>>
  ELSE LET param == Head(params)
       IN (IF param.in = "query" /\ ArgOf(args, param.name) # Undefined
           THEN << <<param.name, Str(ArgOf(args, param.name))>> >>
           ELSE <<>>) \o QueryParams(Tail(params), args)

\* Mutant: the token of some registered session, not of this one.
SessionToken_OfAnySession(sd, sid) ==
  sd[CHOOSE s \in DOMAIN sd : \A r \in DOMAIN sd : s <= r].token

\* const bearerToken = sessionData[sessionId].token
SessionToken(sd, sid) == sd[sid].token

\* fullUrl and requestOptions of the upstream request of a Call.
BuildRequest(tool, args, bearerToken) ==
  LET method == ToUpperCase(tool.method)
      hasBody == method \in {"POST", "PUT", "PATCH"} /\ Truthy(args.requestBody)
  IN [fullUrl |-> [base |-> "BASE_URL",
                   path |-> SubstitutePath(tool.pathTemplate, tool.parameters, args),
                   query |-> QueryParams(tool.parameters, args)],
      method |-> method,
      authorization |-> <<"Bearer ", bearerToken>>,
      body |-> IF hasBody THEN <<"JSON.stringify", args.requestBody>>
               ELSE Undefined]

UnknownTool(name) == [type |-> "error", message |-> <<"Unknown tool", name>>]

\* A Call that threw before the try block: no request, no access record.
Rejected(sid, creq, error) ==
  [pc |-> "done", kind |-> "call", sessionId |-> sid, name |-> creq.name,
   args |-> creq.args, dispatched |-> FALSE, records |-> <<>>,
   outcome |-> error]

\* Mutant: the tool is looked up among the tools the session may list.
CallTool_GatedByCategory(sd, sid, creq) ==
  IF ~HasSession(sd, sid) THEN Rejected(sid, creq, InvalidSession)
  ELSE LET k == FindTool(allTools, creq.name)
           listed == filterToolsByCategory(allTools, sd[sid].category)
       IN IF FindTool(listed, creq.name) = 0
          THEN Rejected(sid, creq, UnknownTool(creq.name))
          ELSE [pc |-> "fetching", kind |-> "call", sessionId |-> sid,
                name |-> creq.name, args |-> creq.args, tool |-> k,
                category |-> sd[sid].category, userAgent |-> sd[sid].userAgent,
                bearerToken |-> SessionToken(sd, sid),
                request |-> BuildRequest(allTools[k], creq.args,
                                         SessionToken(sd, sid))]

\* CallToolRequestSchema handler up to the await of fetch, for
\* extra.sessionId = sid: checks the session, resolves the tool in the full
\* catalog, captures the session's category, user agent and token, builds the
\* request and sends it.  The value is the call in flight, or the rejection.
CallTool(sd, sid, creq) ==
  LET k == FindTool(allTools, creq.name)
  IN IF ~HasSession(sd, sid) THEN Rejected(sid, creq, InvalidSession)
     ELSE IF k = 0 THEN Rejected(sid, creq, UnknownTool(creq.name))
     ELSE LET bearerToken == SessionToken(sd, sid)
          IN [pc |-> "fetching", kind |-> "call", sessionId |-> sid,
              name |-> creq.name, args |-> creq.args, tool |-> k,
              category |-> sd[sid].category, userAgent |-> sd[sid].userAgent,
              bearerToken |-> bearerToken,
              request |-> BuildRequest(allTools[k], creq.args, bearerToken)]

\* POST of tools/call carrying the id of a registered session, arriving as
\* request req: as for tools/list, the request's own Authorization header and
\* URL category are computed and not used; the session's transport handles
\* the request and the SDK invokes the Call handler in the same turn of the
\* event loop, with the transport's session id.
PostCallOn(sid, req, creq) ==
  /\ Serving
  /\ HasSession(sessionData, sid)
  /\ BagCardinality(calls) < MaxInFlight
  /\ LET authHeader == req.authHeader
         category == RequestCategory(req.urlCategory)
         transport == sessionData[sid].transport
         c == CallTool(sessionData, transports[transport].sessionId, creq)
     IN IF c.pc = "fetching"
        THEN /\ calls' = calls (+) SetToBag({c})
             /\ finished' = NoCall
        ELSE /\ calls' = calls
             /\ finished' = c
  /\ lastResp' = NoResp
  /\ UNCHANGED <<config, transports, sessionData, servers, shutdown>>

\* POST of tools/call carrying the id of a registered session, on any URL and
\* with any Authorization header.
PostCall(sid, creq) == \E req \in InitRequests : PostCallOn(sid, req, creq)

\* response.ok
Ok(status) == status >= 200 /\ status <= 299

\* contentType.includes("application/json")
IsJson(contentType) == contentType = "application/json"

\* response.json() rejects when the body is not valid JSON; response.text()
\* takes any body.
BodyReadable(up) == IsJson(up.contentType) => up.validJson

\* result = await response.json() for a JSON content type, else response.text()
ReadBody(up) ==
  IF IsJson(up.contentType)
  THEN <<"parsed", "body">>
  ELSE <<"text", "body">>

\* ToolLogger.logToolAccess: the log entry appended to <tool.name>.jsonl and
\* the category the metrics are recorded under.
logToolAccess(tool, category, endpoint, payload, response, returnCode) ==
  [file |-> tool.name, category |-> category, endpoint |-> endpoint,
   payload |-> payload, response |-> response, return_code |-> returnCode]

\* Mutant: the catch block hands nothing to the logger.
CatchRecords_NotLogging(recording, records, tool, c, error, hasResponse, status) ==
  records

\* The access records one Call hands to the logger: records is what the try
\* block handed before it threw (or <<>>), error the message of what it threw.
CatchRecords(recording, records, tool, c, error, hasResponse, status) ==
  IF recording
  THEN Append(records,
         logToolAccess(tool, c.category, c.request.fullUrl,
                       [method |-> ToUpperCase(tool.method), userAgent |-> c.userAgent],
                       [error |-> error],
                       IF hasResponse /\ status # 0 THEN status ELSE 0))
  ELSE records

TryRecords(recording, tool, c, result, status) ==
  IF recording
  THEN << logToolAccess(tool, c.category, c.request.fullUrl,
                        [method |-> ToUpperCase(tool.method), userAgent |-> c.userAgent],
                        result, status) >>
  ELSE <<>>

ExecutionFailed(error) ==
  [type |-> "error", message |-> <<"Tool execution failed", error>>]

\* The rest of the CallToolRequestSchema handler, from the return of fetch:
\* the try block and, when it throws, the catch block.
CompleteCall(c, up, recording) ==
  LET tool == allTools[c.tool]
      done == [c EXCEPT !.pc = "done"] @@ [dispatched |-> TRUE]
  IN IF up.failed
     THEN LET error == <<"fetch failed">>
          IN done @@ [response |-> [present |-> FALSE],
                      records |-> CatchRecords(recording, <<>>, tool, c, error, FALSE, 0),
                      outcome |-> ExecutionFailed(error)]
     ELSE IF ~BodyReadable(up)
     THEN LET error == <<"Unexpected token in JSON">>
          IN done @@ [response |-> [present |-> TRUE, status |-> up.status],
                      records |-> CatchRecords(recording, <<>>, tool, c, error, TRUE, up.status),
                      outcome |-> ExecutionFailed(error)]
     ELSE LET result == ReadBody(up)
              logged == TryRecords(recording, tool, c, result, up.status)
          IN IF ~Ok(up.status)
             THEN LET error == <<"HTTP", up.status, <<"JSON.stringify", result>> >>
                  IN done @@ [response |-> [present |-> TRUE, status |-> up.status],
                              records |-> CatchRecords(recording, logged, tool, c,
                                                       error, TRUE, up.status),
                              outcome |-> ExecutionFailed(error)]
             ELSE done @@ [response |-> [present |-> TRUE, status |-> up.status],
                           records |-> logged,
                           outcome |-> [type |-> "content",
                                        text |-> <<"JSON.stringify", result>>]]

\* fetch of a dispatched Call settles; the handler runs to its end.
FetchReturns(c, up) ==
  /\ Serving
  /\ BagIn(c, calls) /\ c.pc = "fetching"
  /\ calls' = calls (-) SetToBag({c})
  /\ finished' = CompleteCall(c, up, recordApiQueries)
  /\ lastResp' = NoResp
  /\ UNCHANGED <<config, transports, sessionData, servers, shutdown>>

\* --------------------------------------------------------------- closing
\* transport.onclose
OnClose(t) ==
  LET sid == transports[t].sessionId
  IN IF HasSession(sessionData, sid)
     THEN /\ servers' = servers \ {sid}
          /\ sessionData' = DeleteKey(sessionData, sid)
     ELSE /\ servers' = servers
          /\ sessionData' = sessionData

\* Mutant: closing the transport drops the calls in flight of its session.
TransportCloses_AbortingCalls(t) ==
  /\ Serving
  /\ transports[t].state = "open"
  /\ transports[t].init \in {"validating", "stored"}
  /\ transports' = [transports EXCEPT ![t].state = "closed"]
  /\ OnClose(t)
  /\ calls' = [c \in {d \in BagToSet(calls) : d.sessionId # transports[t].sessionId}
                 |-> calls[c]]
  /\ lastResp' = NoResp
  /\ finished' = NoCall
  /\ UNCHANGED <<config, shutdown>>

\* The SDK closes a transport (for a reason other than DELETE or SIGINT)
\* and calls its onclose.  A transport whose initialization stored nothing is
\* referenced by nothing any more and is not followed further.
TransportCloses(t) ==
  /\ Serving
  /\ transports[t].state = "open"
  /\ transports[t].init \in {"validating", "stored"}
  /\ transports' = [transports EXCEPT ![t].state = "closed"]
  /\ OnClose(t)
  /\ lastResp' = NoResp
  /\ finished' = NoCall
  /\ UNCHANGED <<config, calls, shutdown>>

\* mcpGetHandler
McpGet(sid) ==
  /\ Serving
  /\ lastResp' = IF ~HasSession(sessionData, sid)
                 THEN Resp("GET", sid, 400)
                 ELSE Resp("GET", sid, 200)
  /\ finished' = NoCall
  /\ UNCHANGED <<config, transports, sessionData, servers, calls, shutdown>>

\* mcpDeleteHandler: without a registered session 400; otherwise the transport
\* handles the DELETE (the SDK closes the transport, which calls onclose) and
\* the handler then deletes the session record if it is still there.
McpDelete(sid) ==
  /\ Serving
  /\ IF ~HasSession(sessionData, sid)
     THEN /\ lastResp' = Resp("DELETE", sid, 400)
          /\ UNCHANGED <<transports, sessionData, servers>>
     ELSE LET t == sessionData[sid].transport
              closedSd == IF HasSession(sessionData, transports[t].sessionId)
                          THEN DeleteKey(sessionData, transports[t].sessionId)
                          ELSE sessionData
          IN /\ transports' = [transports EXCEPT ![t].state = "closed"]
             /\ servers' = servers \ {transports[t].sessionId}
             /\ sessionData' = IF HasSession(closedSd, sid)
                               THEN DeleteKey(closedSd, sid) ELSE closedSd
             /\ lastResp' = Resp("DELETE", sid, 200)
  /\ finished' = NoCall
  /\ UNCHANGED <<config, calls, shutdown>>

\* ---------------------------------------------------------------- SIGINT
\* The SIGINT handler starts its loop over the keys of sessionData: for-in
\* enumerates the keys the object has when the loop starts, and skips a key
\* that was deleted before its turn.  The handler runs on without giving up
\* the event loop until it awaits.
ShutdownStarts ==
  /\ Answered
  /\ shutdown = NoShutdown
  /\ shutdown' = [pc |-> "looping", keys |-> DOMAIN sessionData]
  /\ lastResp' = NoResp
  /\ finished' = NoCall
  /\ UNCHANGED <<config, transports, sessionData, servers, calls>>

\* One iteration of the loop: the transport is closed (its onclose runs) and
\* the handler awaits the close; then the server instance and the session
\* record are deleted, which onclose has done already.
ShutdownClosesSession(sid) ==
  /\ Answered
  /\ shutdown.pc = "looping"
  /\ sid \in shutdown.keys
  /\ HasSession(sessionData, sid)
  /\ LET t == sessionData[sid].transport
         closedSd == IF HasSession(sessionData, transports[t].sessionId)
                     THEN DeleteKey(sessionData, transports[t].sessionId)
                     ELSE sessionData
     IN /\ transports' = [transports EXCEPT ![t].state = "closed"]
        /\ servers' = (servers \ {transports[t].sessionId}) \ {sid}
        /\ sessionData' = DeleteKey(closedSd, sid)
  /\ shutdown' = [shutdown EXCEPT !.pc = "awaiting"]
  /\ lastResp' = NoResp
  /\ finished' = NoCall
  /\ UNCHANGED <<config, calls>>

\* transport.close() settled: the handler goes on with its loop.
ShutdownResumes ==
  /\ Answered
  /\ shutdown.pc = "awaiting"
  /\ shutdown' = [shutdown EXCEPT !.pc = "looping"]
  /\ lastResp' = NoResp
  /\ finished' = NoCall
  /\ UNCHANGED <<config, transports, sessionData, servers, calls>>

\* The loop is over, no enumerated key is left in sessionData: process.exit(0).
ShutdownExits ==
  /\ Answered
  /\ shutdown.pc = "looping"
  /\ shutdown.keys \cap DOMAIN sessionData = {}
  /\ shutdown' = [shutdown EXCEPT !.pc = "exited"]
  /\ lastResp' = NoResp
  /\ finished' = NoCall
  /\ UNCHANGED <<config, transports, sessionData, servers, calls>>

\* ------------------------------------------------------------------- Next
\* The steps of the server for the initialization requests, tools/call
\* requests and upstream outcomes of the given sets.
NextWith(initRequests, validationOutcomes, callRequests, upstreamOutcomes) ==
  \/ \E t \in TransportIds, req \in initRequests : PostInitialize(t, req)
  \/ \E t \in TransportIds, o \in validationOutcomes : ValidateTokenReturns(t, o)
  \/ \E sid \in SessionIds \cup {NoSession}, isInit \in BOOLEAN : PostRejected(sid, isInit)
  \/ \E sid \in SessionIds : PostList(sid)
  \/ \E sid \in SessionIds, creq \in callRequests : PostCall(sid, creq)
  \/ \E c \in BagToSet(calls), up \in upstreamOutcomes : FetchReturns(c, up)
  \/ \E t \in TransportIds : TransportCloses(t)
  \/ \E sid \in SessionIds \cup {NoSession} : McpGet(sid)
  \/ \E sid \in SessionIds \cup {NoSession} : McpDelete(sid)
  \/ ShutdownStarts
  \/ \E sid \in SessionIds : ShutdownClosesSession(sid)
  \/ ShutdownResumes
  \/ ShutdownExits
  \/ Respond

\* The session life cycle: every kind of initialization request, one tool.
LifecycleCalls == {r \in CallRequests : r.name \in {"headPing", "noSuchTool"}}

LifecycleOutcomes == {Upstream(200, "application/json", TRUE)}

Next == NextWith(InitRequests, ValidationOutcomes, LifecycleCalls, LifecycleOutcomes)

Spec == Init /\ [][Next]_vars

\* Dispatch: sessions of two clients, every tools/call request and outcome.
DispatchInits == {r \in InitRequests : TokenPresent(extractBearerToken(r.authHeader))}

NextDispatch == NextWith(DispatchInits, {"ok"}, CallRequests, UpstreamOutcomes)

SpecDispatch == Init /\ [][NextDispatch]_vars

\* Binding: initialization requests with a valid credential on the URL of a
\* configured category, of an unknown category and of no category, with and
\* without a User-Agent header.
BindingInits ==
  { InitReq(<<"Bearer ", "tokA">>, c, u) :
      c \in {"readonly", "admin", "bogus", Undefined}, u \in {"curl", Undefined} }

NextBinding == NextWith(BindingInits, {"ok"}, LifecycleCalls, LifecycleOutcomes)

SpecBinding == Init /\ [][NextBinding]_vars

\* ============================================================ tool compiler
\* extractToolsFromApi and its helpers (extract-tools).  JS strings are
\* sequences of one-character strings, and JS values are records tagged with
\* their type, so that typeof, truthiness and || are what they are in JS.
JsUndefined == [type |-> "undefined"]
JsNull == [type |-> "null"]
JsBoolean(b) == [type |-> "boolean", bool |-> b]
JsString(chars) == [type |-> "string", chars |-> chars]
JsNumber(n) == [type |-> "number", num |-> n]
JsObject == [type |-> "object"]
JsArray(items) == [type |-> "array", items |-> items]

\* ToBoolean(v): undefined, null, false, "", 0 are falsy.
JsTruthy(v) ==
  CASE v.type = "undefined" -> FALSE
    [] v.type = "null" -> FALSE
    [] v.type = "boolean" -> v.bool
    [] v.type = "string" -> v.chars # <<>>
    [] v.type = "number" -> v.num # 0
    [] OTHER -> TRUE

\* a || b
JsOr(a, b) == IF JsTruthy(a) THEN a ELSE b

LowerLetters ==
  <<"a", "b", "c", "d", "e", "f", "g", "h", "i", "j", "k", "l", "m",
    "n", "o", "p", "q", "r", "s", "t", "u", "v", "w", "x", "y", "z">>

UpperLetters ==
  <<"A", "B", "C", "D", "E", "F", "G", "H", "I", "J", "K", "L", "M",
    "N", "O", "P", "Q", "R", "S", "T", "U", "V", "W", "X", "Y", "Z">>

Digits == <<"0", "1", "2", "3", "4", "5", "6", "7", "8", "9">>

\* String.prototype.toLowerCase / toUpperCase, one character at a time.
CharToLowerCase(c) ==
  IF \E i \in DOMAIN UpperLetters : UpperLetters[i] = c
  THEN LowerLetters[CHOOSE i \in DOMAIN UpperLetters : UpperLetters[i] = c]
  ELSE c

CharToUpperCase(c) ==
  IF \E i \in DOMAIN LowerLetters : LowerLetters[i] = c
  THEN UpperLetters[CHOOSE i \in DOMAIN LowerLetters : LowerLetters[i] = c]
  ELSE c

toLowerCase(s) == [i \in DOMAIN s |-> CharToLowerCase(s[i])]

\* White space that String.prototype.trim removes.
WhiteSpace == {" ", "\t", "\n", "\r"}

RECURSIVE TrimStart(_)
TrimStart(s) ==
  IF s # <<>> /\ Head(s) \in WhiteSpace THEN TrimStart(Tail(s)) ELSE s

RECURSIVE TrimEnd(_)
TrimEnd(s) ==
  IF s # <<>> /\ s[Len(s)] \in WhiteSpace
  THEN TrimEnd(SubSeq(s, 1, Len(s) - 1))
  ELSE s

\* String.prototype.trim
trim(s) == TrimEnd(TrimStart(s))

\* The value of a boolean | undefined variable.
IsDefined(v) == v.type # "undefined"

\* A normalization that lower-cases the string without trimming it.
normalizeBoolean_NoTrim(value) ==
  IF value.type = "boolean" THEN value
  ELSE IF value.type = "string"
  THEN LET normalized == toLowerCase(value.chars)
       IN IF normalized \in {<<"t", "r", "u", "e">>, <<"1">>,
                             <<"y", "e", "s">>, <<"o", "n">>}
          THEN JsBoolean(TRUE)
          ELSE IF normalized \in {<<"f", "a", "l", "s", "e">>, <<"0">>,
                                  <<"n", "o">>, <<"o", "f", "f">>}
          THEN JsBoolean(FALSE)
          ELSE JsUndefined
  ELSE JsUndefined

\* A normalization that takes every unknown string for false.
normalizeBoolean_UnknownIsFalse(value) ==
  IF value.type = "boolean" THEN value
  ELSE IF value.type = "string"
  THEN LET normalized == toLowerCase(trim(value.chars))
       IN IF normalized \in {<<"t", "r", "u", "e">>, <<"1">>,
                             <<"y", "e", "s">>, <<"o", "n">>}
          THEN JsBoolean(TRUE)
          ELSE JsBoolean(FALSE)
  ELSE JsUndefined

\* normalizeBoolean(value)
normalizeBoolean(value) ==
  IF value.type = "boolean" THEN value
  ELSE IF value.type = "string"
  THEN LET normalized == toLowerCase(trim(value.chars))
       IN IF normalized \in {<<"t", "r", "u", "e">>, <<"1">>,
                             <<"y", "e", "s">>, <<"o", "n">>}
          THEN JsBoolean(TRUE)
          ELSE IF normalized \in {<<"f", "a", "l", "s", "e">>, <<"0">>,
                                  <<"n", "o">>, <<"o", "f", "f">>}
          THEN JsBoolean(FALSE)
          ELSE JsUndefined
  ELSE JsUndefined

\* console.warn of shouldIncludeOperationForMcp: the level and the raw value.
InvalidXMcp(level, raw) == [level |-> level, raw |-> raw]

\* A resolver that asks the path item before the operation.
shouldIncludeOperationForMcp_PathFirst(api, pathItem, operation, defaultIncl) ==
  LET opVal == normalizeBoolean(operation.xmcp)
      pathVal == normalizeBoolean(pathItem.xmcp)
      rootVal == normalizeBoolean(api.xmcp)
      all == <<[raw |-> operation.xmcp, val |-> opVal],
               [raw |-> pathItem.xmcp, val |-> pathVal],
               [raw |-> api.xmcp, val |-> rootVal]>>
  IN [include |-> IF IsDefined(pathVal) THEN pathVal.bool
                  ELSE IF IsDefined(opVal) THEN opVal.bool
                  ELSE IF IsDefined(rootVal) THEN rootVal.bool
                  ELSE defaultIncl,
      warnings |-> <<>>, normalized |-> all]

\* shouldIncludeOperationForMcp(api, pathItem, operation, defaultInclude):
\* the value returned, the warnings written on the way and the values of
\* opVal, pathVal and rootVal that were computed.
shouldIncludeOperationForMcp(api, pathItem, operation, defaultIncl) ==
  LET opRaw == operation.xmcp
      opVal == normalizeBoolean(opRaw)
      opWarn == IF IsDefined(opRaw) THEN <<InvalidXMcp("operation", opRaw)>> ELSE <<>>
      pathRaw == pathItem.xmcp
      pathVal == normalizeBoolean(pathRaw)
      pathWarn == IF IsDefined(pathRaw) THEN <<InvalidXMcp("path", pathRaw)>> ELSE <<>>
      rootRaw == api.xmcp
      rootVal == normalizeBoolean(rootRaw)
      rootWarn == IF IsDefined(rootRaw) THEN <<InvalidXMcp("root", rootRaw)>> ELSE <<>>
      op == <<[raw |-> opRaw, val |-> opVal]>>
      path == <<[raw |-> pathRaw, val |-> pathVal]>>
      root == <<[raw |-> rootRaw, val |-> rootVal]>>
  IN IF IsDefined(opVal)
     THEN [include |-> opVal.bool, warnings |-> <<>>, normalized |-> op]
     ELSE IF IsDefined(pathVal)
     THEN [include |-> pathVal.bool, warnings |-> opWarn,
           normalized |-> op \o path]
     ELSE IF IsDefined(rootVal)
     THEN [include |-> rootVal.bool, warnings |-> opWarn \o pathWarn,
           normalized |-> op \o path \o root]
     ELSE [include |-> defaultIncl, warnings |-> opWarn \o pathWarn \o rootWarn,
           normalized |-> op \o path \o root]

\* A constructor that sets deprecated to false whatever the raw value is.
AAPOperationObject_NeverDeprecated(rawOperation) ==
  [rawOperation EXCEPT
     !.deprecated = JsBoolean(FALSE),
     !.responses = JsOr(rawOperation.responses, JsObject),
     !.xai = JsOr(rawOperation.xai, JsString(<<>>))]

\* new AAPOperationObject(rawOperation): the raw fields, with deprecated,
\* responses and x-ai-description (xai) defaulted.
AAPOperationObject(rawOperation) ==
  [rawOperation EXCEPT
     !.deprecated = JsOr(rawOperation.deprecated, JsBoolean(FALSE)),
     !.responses = JsOr(rawOperation.responses, JsObject),
     !.xai = JsOr(rawOperation.xai, JsString(<<>>))]

\* Index of the first occurrence of the sequence sep in s at or after
\* position i, 0 if there is none.
RECURSIVE IndexOf(_, _, _)
IndexOf(s, sep, i) ==
  IF i + Len(sep) - 1 > Len(s) THEN 0
  ELSE IF SubSeq(s, i, i + Len(sep) - 1) = sep THEN i
  ELSE IndexOf(s, sep, i + 1)

\* String.prototype.split(sep), sep not empty.
RECURSIVE split(_, _)
split(s, sep) ==
  LET k == IndexOf(s, sep, 1)
  IN IF k = 0 THEN <<s>>
     ELSE <<SubSeq(s, 1, k - 1)>> \o split(SubSeq(s, k + Len(sep), Len(s)), sep)

\* str.replace(/[-_/](.)/g, (_, char) => char.toUpperCase())
RECURSIVE ReplaceSeparators(_)
ReplaceSeparators(s) ==
  IF s = <<>> THEN <<>>
  ELSE IF Head(s) \in {"-", "_", "/"} /\ Len(s) >= 2 /\ s[2] \notin {"\n", "\r"}
  THEN <<CharToUpperCase(s[2])>> \o ReplaceSeparators(SubSeq(s, 3, Len(s)))
  ELSE <<Head(s)>> \o ReplaceSeparators(Tail(s))

\* titleCase(str)
titleCase(str) ==
  LET separated == ReplaceSeparators(toLowerCase(str))
      noOpen == IF separated # <<>> /\ Head(separated) = "{"
                THEN Tail(separated) ELSE separated
      noClose == IF noOpen # <<>> /\ noOpen[Len(noOpen)] = "}"
                 THEN SubSeq(noOpen, 1, Len(noOpen) - 1) ELSE noOpen
  IN IF noClose # <<>> /\ Head(noClose) \notin {"\n", "\r"}
     THEN <<CharToUpperCase(Head(noClose))>> \o Tail(noClose)
     ELSE noClose

\* The characters of OpenAPIV3.HttpMethods values.
MethodChars(method) ==
  CASE method = "get" -> <<"g", "e", "t">>
    [] method = "put" -> <<"p", "u", "t">>
    [] method = "post" -> <<"p", "o", "s", "t">>
    [] method = "delete" -> <<"d", "e", "l", "e", "t", "e">>
    [] method = "options" -> <<"o", "p", "t", "i", "o", "n", "s">>
    [] method = "head" -> <<"h", "e", "a", "d">>
    [] method = "patch" -> <<"p", "a", "t", "c", "h">>
    [] method = "trace" -> <<"t", "r", "a", "c", "e">>

\* A loop that appends By and the parameter name for every parameter part.
RECURSIVE AppendParts_EveryParameter(_, _, _)
AppendParts_EveryParameter(name, parts, index) ==
  IF index > Len(parts) THEN name
  ELSE LET part == parts[index]
           isParam == part[1] = "{" /\ part[Len(part)] = "}"
       IN AppendParts_EveryParameter(
            IF isParam THEN name \o <<"B", "y">> \o titleCase(part)
            ELSE name \o titleCase(part),
            parts, index + 1)

\* parts.forEach of generateOperationId, from the part at index.
RECURSIVE AppendParts(_, _, _)
AppendParts(name, parts, index) ==
  IF index > Len(parts) THEN name
  ELSE LET part == parts[index]
           isParam == part[1] = "{" /\ part[Len(part)] = "}"
       IN AppendParts(
            IF isParam
            THEN IF index = Len(parts) THEN name \o <<"B", "y">> \o titleCase(part)
                 ELSE name
            ELSE name \o titleCase(part),
            parts, index + 1)

\* generateOperationId(method, path)
generateOperationId(method, path) ==
  LET parts == SelectSeq(split(path, <<"/">>), LAMBDA p : p # <<>>)
  IN AppendParts(toLowerCase(MethodChars(method)), parts, 1)

\* A character the class [a-z0-9_-] matches under the i flag.
IsNameChar(c) ==
  \/ \E i \in DOMAIN LowerLetters : LowerLetters[i] = c \/ UpperLetters[i] = c
  \/ \E i \in DOMAIN Digits : Digits[i] = c
  \/ c \in {"_", "-"}

\* Sanitizing that replaces the dots only.
SanitizeName_DotsOnly(originalBaseName) ==
  [i \in DOMAIN originalBaseName |->
     IF originalBaseName[i] = "." THEN "_" ELSE originalBaseName[i]]

\* originalBaseName.replace(/\./g, "_").replace(/[^a-z0-9_-]/gi, "_")
SanitizeName(originalBaseName) ==
  LET noDots == [i \in DOMAIN originalBaseName |->
                   IF originalBaseName[i] = "." THEN "_" ELSE originalBaseName[i]]
  IN [i \in DOMAIN noDots |-> IF IsNameChar(noDots[i]) THEN noDots[i] ELSE "_"]

\* `${counter}` of a natural number.
RECURSIVE Decimal(_)
Decimal(n) ==
  IF n < 10 THEN <<Digits[n + 1]>>
  ELSE Decimal(n \div 10) \o <<Digits[(n % 10) + 1]>>

\* while (usedNames.has(nameCandidate))
\*   nameCandidate = `${nameCandidate}_${counter++}`
RECURSIVE UniqueName(_, _, _)
UniqueName(nameCandidate, counter, usedNames) ==
  IF nameCandidate \in usedNames
  THEN UniqueName(nameCandidate \o <<"_">> \o Decimal(counter), counter + 1, usedNames)
  ELSE nameCandidate

\* Array.isArray(x) ? x : []
ArrayOrEmpty(x) == IF x.type = "array" THEN x.items ELSE <<>>

\* allParameters.findIndex(p => p.name === opParam.name && p.in === opParam.in),
\* 0 for -1.
FindParameter(allParameters, opParam) ==
  IF \E k \in DOMAIN allParameters :
       allParameters[k].name = opParam.name /\ allParameters[k].in = opParam.in
  THEN CHOOSE k \in DOMAIN allParameters :
         /\ allParameters[k].name = opParam.name /\ allParameters[k].in = opParam.in
         /\ \A j \in 1..(k - 1) :
              ~(allParameters[j].name = opParam.name /\ allParameters[j].in = opParam.in)
  ELSE 0

\* The forEach over operationParameters.concat(pathParametersResolved) that
\* fills allParameters.
RECURSIVE MergeInto(_, _)
MergeInto(allParameters, rest) ==
  IF rest = <<>> THEN allParameters
  ELSE LET opParam == Head(rest)
           existingIndex == FindParameter(allParameters, opParam)
       IN MergeInto(IF existingIndex >= 1
                    THEN [allParameters EXCEPT ![existingIndex] = opParam]
                    ELSE Append(allParameters, opParam),
                    Tail(rest))

\* allParameters of generateInputSchemaAndDetails(operation, pathParameters)
MergeParameters(operation, pathParameters) ==
  LET operationParameters == ArrayOrEmpty(operation.parameters)
      pathParametersResolved == ArrayOrEmpty(pathParameters)
  IN MergeInto(<<>>, operationParameters \o pathParametersResolved)

\* properties of generateInputSchemaAndDetails: for each parameter with a name
\* and a schema, in order, its schema with description param.description ||
\* schema.description; a later parameter of the same name replaces the entry.
\* The schemas of parameters are scalar schemas, which the schema translation
\* copies, with type integer turned into number.
RECURSIVE SchemaProperties(_, _)
SchemaProperties(properties, params) ==
  IF params = <<>> THEN properties
  ELSE LET param == Head(params)
           paramSchema ==
             [schemaType |-> IF param.schema.schemaType = "integer" THEN "number"
                             ELSE param.schema.schemaType,
              description |-> JsOr(param.description, param.schema.description)]
       IN SchemaProperties(
            IF param.name = "" \/ param.schema.type = "undefined" THEN properties
            ELSE [n \in DOMAIN properties \cup {param.name} |->
                    IF n = param.name THEN paramSchema ELSE properties[n]],
            Tail(params))

\* required of generateInputSchemaAndDetails
RequiredNames(params) ==
  LET kept == SelectSeq(params, LAMBDA p :
                 p.name # "" /\ p.schema.type # "undefined" /\ p.required)
  IN [k \in DOMAIN kept |-> kept[k].name]

\* The request body part of generateInputSchemaAndDetails, lines 270-308:
\* whether a requestBody property is added, its content type, its schema and
\* whether it is required.  The schema of a JSON body is a scalar schema.
RequestBodyDetails(operation) ==
  LET opRequestBody == operation.requestBody
      content == IF JsTruthy(opRequestBody) THEN ArrayOrEmpty(opRequestBody.content)
                 ELSE <<>>
      json == SelectSeq(content, LAMBDA c :
                c.contentType = <<"a", "p", "p", "l", "i", "c", "a", "t", "i", "o", "n", "/", "j", "s", "o", "n">> /\ c.schema.type # "undefined")
  IN IF json # <<>>
     THEN [present |-> TRUE,
           contentType |-> JsString(<<"a", "p", "p", "l", "i", "c", "a", "t", "i", "o", "n", "/", "j", "s", "o", "n">>),
           schema |->
             [schemaType |-> IF json[1].schema.schemaType = "integer" THEN "number"
                             ELSE json[1].schema.schemaType,
              description |->
                JsOr(opRequestBody.description,
                     JsOr(json[1].schema.description,
                          JsString(<<"T", "h", "e", " ", "J", "S", "O", "N", " ", "r", "e", "q", "u", "e", "s", "t", " ", "b", "o", "d", "y", ".">>)))],
           required |-> JsTruthy(opRequestBody.required)]
     ELSE IF content # <<>>
     THEN [present |-> TRUE,
           contentType |-> JsString(content[1].contentType),
           schema |->
             [schemaType |-> "string",
              description |->
                JsOr(opRequestBody.description,
                     JsString(<<"R", "e", "q", "u", "e", "s", "t", " ", "b", "o", "d", "y", " ", "(", "c", "o", "n", "t", "e", "n", "t", " ", "t", "y", "p", "e", ":", " ">>
                              \o content[1].contentType \o <<")">>))],
           required |-> JsTruthy(opRequestBody.required)]
     ELSE [present |-> FALSE, contentType |-> JsUndefined]

\* generateInputSchemaAndDetails(operation, pathParameters)
generateInputSchemaAndDetails(operation, pathParameters) ==
  LET allParameters == MergeParameters(operation, pathParameters)
      parameterProperties == SchemaProperties([n \in {} |-> 0], allParameters)
      body == RequestBodyDetails(operation)
  IN [inputSchema |->
        [properties |->
           IF body.present
           THEN [n \in DOMAIN parameterProperties \cup {"requestBody"} |->
                   IF n = "requestBody" THEN body.schema ELSE parameterProperties[n]]
           ELSE parameterProperties,
         required |->
           RequiredNames(allParameters)
             \o (IF body.present /\ body.required THEN <<"requestBody">> ELSE <<>>)],
      parameters |-> allParameters,
      requestBodyContentType |-> body.contentType]

\* operation.description?.trim().split("\n\n")[0]
FirstParagraph(description) == split(trim(description), <<"\n", "\n">>)[1]

\* A resolution that prefers the summary to the x-ai-description.
ResolveDescription_SummaryFirst(operation) ==
  JsOr(operation.summary,
       JsOr(operation.xai,
            IF JsTruthy(operation.description)
            THEN JsString(FirstParagraph(operation.description.chars))
            ELSE JsString(<<>>)))

\* const description = x-ai-description || summary ||
\*   (operation.description ? first paragraph : "")
ResolveDescription(operation) ==
  JsOr(operation.xai,
       JsOr(operation.summary,
            IF JsTruthy(operation.description)
            THEN JsString(FirstParagraph(operation.description.chars))
            ELSE JsString(<<>>)))

\* const globalSecurity = api.security || []
globalSecurity(api) == JsOr(api.security, JsArray(<<>>))

\* A fallback that also replaces an empty security array by the global one.
securityRequirements_EmptyFallsBack(api, operation) ==
  IF operation.security.type = "array" /\ operation.security.items # <<>>
  THEN operation.security
  ELSE globalSecurity(api)

\* operation.security === null ? globalSecurity
\*                             : operation.security || globalSecurity
securityRequirements(api, operation) ==
  IF operation.security.type = "null" THEN globalSecurity(api)
  ELSE JsOr(operation.security, globalSecurity(api))

LogEntry(severity, msg) == [severity |-> severity, msg |-> msg]

\* Diagnostics that take an x-ai-description of 300 characters for too long.
OperationLogs_TooLongAt300(operation, originalBaseName, nameCandidate, inputSchema) ==
  (IF ~JsTruthy(operation.operationId)
   THEN <<LogEntry("WARN", "no operationId key available")>> ELSE <<>>)
  \o (IF originalBaseName # nameCandidate
      THEN <<LogEntry("WARN", "name was transformed from")
               @@ [from |-> originalBaseName]>>
      ELSE <<>>)
  \o (IF ~JsTruthy(operation.description)
      THEN <<LogEntry("WARN", "no description in OpenAPI schema")>> ELSE <<>>)
  \o (IF ~JsTruthy(operation.summary)
      THEN <<LogEntry("INFO", "no summary in OpenAPI schema")>> ELSE <<>>)
  \o (IF Len(operation.xai.chars) = 0
      THEN <<LogEntry("ERR", "no x-ai-description field")>> ELSE <<>>)
  \o (IF Len(operation.xai.chars) >= 300
      THEN <<LogEntry("ERR", "x-ai-description is too long (>300 chars)")>>
      ELSE <<>>)
  \o (IF \E n \in DOMAIN inputSchema.properties :
           ~JsTruthy(inputSchema.properties[n].description)
      THEN <<LogEntry("ERR", "has parameter(s) with no description key")>>
      ELSE <<>>)

\* The diagnostics of one operation, in the order they are pushed (the
\* messages without their backquotes).
OperationLogs(operation, originalBaseName, nameCandidate, inputSchema) ==
  (IF ~JsTruthy(operation.operationId)
   THEN <<LogEntry("WARN", "no operationId key available")>> ELSE <<>>)
  \o (IF originalBaseName # nameCandidate
      THEN <<LogEntry("WARN", "name was transformed from")
               @@ [from |-> originalBaseName]>>
      ELSE <<>>)
  \o (IF ~JsTruthy(operation.description)
      THEN <<LogEntry("WARN", "no description in OpenAPI schema")>> ELSE <<>>)
  \o (IF ~JsTruthy(operation.summary)
      THEN <<LogEntry("INFO", "no summary in OpenAPI schema")>> ELSE <<>>)
  \o (IF Len(operation.xai.chars) = 0
      THEN <<LogEntry("ERR", "no x-ai-description field")>> ELSE <<>>)
  \o (IF Len(operation.xai.chars) > 300
      THEN <<LogEntry("ERR", "x-ai-description is too long (>300 chars)")>>
      ELSE <<>>)
  \o (IF \E n \in DOMAIN inputSchema.properties :
           ~JsTruthy(inputSchema.properties[n].description)
      THEN <<LogEntry("ERR", "has parameter(s) with no description key")>>
      ELSE <<>>)

\* Object.entries(api.paths) x Object.values(OpenAPIV3.HttpMethods) of
\* extractToolsFromApi: the (path, method) pairs that have an operation, in
\* the order of the two loops.  A path item lists its operations in the order
\* of HttpMethods.
RECURSIVE OperationsFrom(_, _)
OperationsFrom(paths, i) ==
  IF i > Len(paths) THEN <<>>
  ELSE [k \in DOMAIN paths[i].operations |->
          [path |-> paths[i].path, pathItem |-> paths[i],
           method |-> paths[i].operations[k].method,
           rawOperation |-> paths[i].operations[k].operation]]
       \o OperationsFrom(paths, i + 1)

Operations(api) == OperationsFrom(api.paths, 1)

\* One iteration of the inner loop of extractToolsFromApi for the pair entry:
\* whether the operation was skipped, the warnings written, the x-mcp values
\* that were normalized, and the tool pushed.
ExtractOperation(api, entry, usedNames, defaultIncl) ==
  LET operation == AAPOperationObject(entry.rawOperation)
      decision == shouldIncludeOperationForMcp(api, entry.pathItem, operation,
                                               defaultIncl)
      originalBaseName ==
        IF JsTruthy(operation.operationId) THEN operation.operationId.chars
        ELSE generateOperationId(entry.method, entry.path)
      nameCandidate == UniqueName(SanitizeName(originalBaseName), 1, usedNames)
      details == generateInputSchemaAndDetails(operation, entry.pathItem.parameters)
      outcome == [warnings |-> decision.warnings, normalized |-> decision.normalized,
                  operation |-> operation]
  IN IF ~decision.include \/ originalBaseName = <<>>
     THEN outcome @@ [skipped |-> TRUE]
     ELSE outcome @@
          [skipped |-> FALSE,
           tool |->
             [name |-> nameCandidate,
              description |-> ResolveDescription(operation),
              inputSchema |-> details.inputSchema,
              method |-> entry.method,
              pathTemplate |-> entry.path,
              parameters |-> details.parameters,
              requestBodyContentType |-> details.requestBodyContentType,
              executionParameters |->
                [k \in DOMAIN details.parameters |->
                   [name |-> details.parameters[k].name,
                    in |-> details.parameters[k].in]],
              securityRequirements |-> securityRequirements(api, operation),
              operationId |-> originalBaseName,
              deprecated |-> operation.deprecated,
              logs |-> OperationLogs(operation, originalBaseName, nameCandidate,
                                     details.inputSchema)]]

\* ------------------------------------------------- documents to extract
RawOperation(operationId, summary, description, xai, security, parameters, xmcp) ==
  [operationId |-> operationId, summary |-> summary, description |-> description,
   xai |-> xai, deprecated |-> JsUndefined, responses |-> JsUndefined,
   security |-> security, parameters |-> parameters, xmcp |-> xmcp,
   requestBody |-> JsUndefined]

\* An operation object with no key at all.
EmptyOperation ==
  RawOperation(JsUndefined, JsUndefined, JsUndefined, JsUndefined, JsUndefined,
               JsUndefined, JsUndefined)

MethodEntry(method, operation) == [method |-> method, operation |-> operation]

PathItem(path, xmcp, parameters, operations) ==
  [path |-> path, xmcp |-> xmcp, parameters |-> parameters,
   operations |-> operations]

ApiDoc(service, xmcp, security, paths) ==
  [service |-> service, xmcp |-> xmcp, security |-> security, paths |-> paths]

\* Raw x-mcp values: unset, null, booleans, the strings normalizeBoolean
\* knows in several spellings, other strings, numbers and an object.
XMcpValues ==
  { JsUndefined, JsNull, JsBoolean(TRUE),
    JsBoolean(FALSE), JsString(<<"t", "r", "u", "e">>), JsString(<<"T", "R", "U", "E">>),
    JsString(<<" ", "t", "r", "u", "e", " ">>), JsString(<<"1">>), JsString(<<"y", "e", "s">>),
    JsString(<<"o", "n">>), JsString(<<"f", "a", "l", "s", "e">>), JsString(<<"F", "A", "L", "S", "E">>),
    JsString(<<" ", "f", "a", "l", "s", "e", " ">>), JsString(<<"0">>), JsString(<<"n", "o">>),
    JsString(<<"o", "f", "f">>), JsString(<<>>), JsString(<<"m", "a", "y", "b", "e">>),
    JsString(<<" ", "O", "n", "\t">>), JsString(<<"2">>), JsNumber(1),
    JsNumber(0), JsObject }

\* The x-mcp values tried at the path item and at the root.
XMcpLevelValues ==
  { JsUndefined, JsNull, JsBoolean(TRUE),
    JsBoolean(FALSE), JsString(<<"Y", "e", "s">>), JsString(<<"O", "F", "F">>),
    JsString(<<"m", "a", "y", "b", "e">>), JsNumber(1) }

\* One path with a GET whose x-mcp is op, then a PUT without x-mcp.
XMcpDocs ==
  { <<ApiDoc("controller", root, JsUndefined,
        <<PathItem(<<"/", "f">>, path, JsUndefined,
            <<MethodEntry("get", [EmptyOperation EXCEPT !.xmcp = op]),
              MethodEntry("put", EmptyOperation)>>)>>)>> :
      op \in XMcpValues, path \in XMcpLevelValues, root \in XMcpLevelValues }

\* operationId values: absent, empty, and names that collide with each other
\* or with a generated name once sanitized.
OperationIds ==
  { JsUndefined, JsString(<<>>), JsString(<<"a", ".", "b">>),
    JsString(<<"a", "_", "b">>), JsString(<<"a", "_", "b", "_", "1">>), JsString(<<"@", " ", "x">>),
    JsString(<<"g", "e", "t", "A", "B">>) }

FewOperationIds ==
  { JsUndefined, JsString(<<"a", ".", "b">>), JsString(<<"a", "_", "b">>),
    JsString(<<"g", "e", "t", "A", "B">>) }

\* Paths whose generated names are getAB, getAB, getAById.
NamePaths == <<<<"/", "a", "/", "b">>, <<"/", "a", "-", "b">>, <<"/", "a", "/", "{", "i", "d", "}">>>>

\* A document with a GET on each of the first Len(ids) paths of NamePaths.
NamesDoc(service, ids) ==
  ApiDoc(service, JsUndefined, JsUndefined,
         [i \in DOMAIN ids |->
            PathItem(NamePaths[i], JsUndefined, JsUndefined,
                     <<MethodEntry("get", [EmptyOperation EXCEPT !.operationId = ids[i]])>>)])

NameDocs ==
  { <<NamesDoc("controller", ids)>> : ids \in [1..3 -> OperationIds] }
  \cup { <<NamesDoc("controller", a), NamesDoc("gateway", b)>> :
           a \in [1..2 -> FewOperationIds], b \in [1..2 -> FewOperationIds] }

\* A string of n characters c.
Repeat(c, n) == [i \in 1..n |-> c]

AiDescriptions ==
  { JsUndefined, JsNull, JsString(<<>>) }
  \cup { JsString(Repeat(c, n)) : c \in {"x", " "}, n \in {1, 299, 300, 301, 302} }

Summaries == { JsUndefined, JsString(<<>>), JsString(<<"S">>) }

Descriptions ==
  { JsUndefined, JsString(<<>>), JsString(<<"D">>),
    JsString(<<" ", " ">>), JsString(<<"P", "\n", "\n", "Q">>), JsString(<<"\n", "\n", "P", "\n", "\n", "Q">>),
    JsString(<<" ", "P", "\n", "\n", "Q", "\n", "\n", "R", " ">>), JsString(<<"a", "\n", "b">>), JsString(<<"P", "\n", " ", "\n", "Q">>) }

DescriptionDocs ==
  { <<ApiDoc("controller", JsUndefined, JsUndefined,
        <<PathItem(<<"/", "d">>, JsUndefined, JsUndefined,
            <<MethodEntry("get", [EmptyOperation EXCEPT !.xai = xai,
                 !.summary = summary, !.description = description])>>)>>)>> :
      xai \in AiDescriptions, summary \in Summaries, description \in Descriptions }

\* A scalar parameter schema.
ScalarSchema(schemaType, description) ==
  [type |-> "schema", schemaType |-> schemaType, description |-> description]

Parameter(name, in, description, required, schema) ==
  [name |-> name, in |-> in, description |-> description, required |-> required,
   schema |-> schema]

\* Parameters declared at the path item (described "P...") and at the
\* operation (described "O..."); "limit" has no description anywhere.
PathLevelParameters ==
  { Parameter("id", "path", JsString(<<"P", " ", "i", "d">>), TRUE, ScalarSchema("integer", JsUndefined)),
    Parameter("id", "query", JsString(<<"P", " ", "i", "d", " ", "q">>), FALSE, ScalarSchema("string", JsUndefined)),
    Parameter("page", "query", JsUndefined, FALSE, ScalarSchema("integer", JsString(<<"P", " ", "p", "a", "g", "e">>))) }

OperationLevelParameters ==
  { Parameter("id", "path", JsString(<<"O", " ", "i", "d">>), TRUE, ScalarSchema("string", JsUndefined)),
    Parameter("id", "query", JsString(<<"O", " ", "i", "d", " ", "q">>), TRUE, ScalarSchema("string", JsUndefined)),
    Parameter("limit", "query", JsUndefined, FALSE, ScalarSchema("integer", JsUndefined)) }

\* The parameters key: absent, or an array of up to two different parameters.
ParameterLists(params) ==
  {JsUndefined} \cup
  { JsArray(list) : list \in
      { l \in UNION {[1..n -> params] : n \in 0..2} :
          \A i \in DOMAIN l : \A j \in DOMAIN l : i # j => l[i] # l[j] } }

ParameterDocs ==
  { <<ApiDoc("controller", JsUndefined, JsUndefined,
        <<PathItem(<<"/", "p", "/", "{", "i", "d", "}">>, JsUndefined, pathLevel,
            <<MethodEntry("get", [EmptyOperation EXCEPT !.parameters = opLevel])>>)>>)>> :
      pathLevel \in ParameterLists(PathLevelParameters),
      opLevel \in ParameterLists(OperationLevelParameters) }

\* The security key of an operation and of the document.
OperationSecurities ==
  { JsUndefined, JsNull, JsArray(<<>>), JsArray(<<"operationAuth">>) }

GlobalSecurities == { JsUndefined, JsArray(<<>>), JsArray(<<"globalAuth">>) }

SecurityDocs ==
  { <<ApiDoc("controller", JsUndefined, global,
        <<PathItem(<<"/", "s">>, JsUndefined, JsUndefined,
            <<MethodEntry("get", [EmptyOperation EXCEPT !.security = security])>>)>>)>> :
      security \in OperationSecurities, global \in GlobalSecurities }

\* Operations without operationId, with and without a summary, on paths with
\* static segments, parameter segments in the middle and at the end,
\* separators, capitals and a trailing slash.
GeneratedNameOperations ==
  <<[method |-> "get", path |-> <<"/", "w", "i", "d", "g", "e", "t", "s", "/", "{", "i", "d", "}">>],
    [method |-> "delete", path |-> <<"/", "w", "i", "d", "g", "e", "t", "s", "/", "{", "i", "d", "}">>],
    [method |-> "get", path |-> <<"/", "a", "/", "{", "i", "d", "}", "/", "b">>],
    [method |-> "get", path |-> <<"/", "{", "x", "}", "/", "{", "y", "}">>],
    [method |-> "post", path |-> <<"/", "u", "s", "e", "r", "_", "n", "a", "m", "e", "s", "/", "{", "u", "s", "e", "r", "_", "i", "d", "}">>],
    [method |-> "patch", path |-> <<"/", "J", "o", "b", "-", "T", "e", "m", "p", "l", "a", "t", "e", "s", "/">>],
    [method |-> "get", path |-> <<"/">>]>>

GeneratedNameDocs ==
  { <<ApiDoc("controller", JsUndefined, JsUndefined,
        <<PathItem(GeneratedNameOperations[k].path, JsUndefined, JsUndefined,
            <<MethodEntry(GeneratedNameOperations[k].method,
                          [EmptyOperation EXCEPT !.summary = summary])>>)>>)>> :
      k \in DOMAIN GeneratedNameOperations, summary \in Summaries }

\* A request body object.
RequestBody(description, required, content) ==
  [type |-> "body", description |-> description, required |-> required,
   content |-> content]

MediaType(contentType, schema) == [contentType |-> contentType, schema |-> schema]

\* The requestBody key: absent, a required JSON body, a described text body
\* and a body without content.
RequestBodies ==
  { JsUndefined,
    RequestBody(JsUndefined, JsBoolean(TRUE),
                JsArray(<<MediaType(<<"t", "e", "x", "t", "/", "p", "l", "a", "i", "n">>, JsUndefined),
                          MediaType(<<"a", "p", "p", "l", "i", "c", "a", "t", "i", "o", "n", "/", "j", "s", "o", "n">>,
                                    ScalarSchema("integer", JsUndefined))>>)),
    RequestBody(JsString(<<"B">>), JsUndefined,
                JsArray(<<MediaType(<<"t", "e", "x", "t", "/", "p", "l", "a", "i", "n">>, JsUndefined)>>)),
    RequestBody(JsUndefined, JsUndefined, JsUndefined) }

\* Raw operations for the constructor of AAPOperationObject: the keys it
\* defaults and the keys it copies, each absent and present.
NormalizationDocs ==
  { <<ApiDoc("controller", JsUndefined, JsUndefined,
        <<PathItem(<<"/", "n">>, JsUndefined, JsUndefined,
            <<MethodEntry("post",
                [EmptyOperation EXCEPT
                   !.xai = xai, !.deprecated = deprecated,
                   !.requestBody = requestBody, !.operationId = other[1],
                   !.summary = other[2], !.description = other[2],
                   !.security = other[3], !.parameters = other[4]])>>)>>)>> :
      xai \in {JsUndefined, JsNull, JsString(<<>>), JsString(Repeat("A", 500))},
      deprecated \in {JsUndefined, JsBoolean(TRUE), JsBoolean(FALSE)},
      requestBody \in RequestBodies,
      other \in {<<JsUndefined, JsUndefined, JsUndefined, JsUndefined>>,
                 <<JsString(<<"o", "p">>), JsString(<<"T">>),
                   JsArray(<<"bearerAuth">>),
                   JsArray(<<Parameter("id", "path", JsUndefined, TRUE,
                                       ScalarSchema("string", JsUndefined))>>)>>} }

\* The document lists the extraction is run on.
ExtractionInputs ==
  XMcpDocs \cup NameDocs \cup DescriptionDocs \cup ParameterDocs \cup SecurityDocs
    \cup GeneratedNameDocs \cup NormalizationDocs

\* --------------------------------------------------- extraction at work
NoOutcome == [skipped |-> TRUE, warnings |-> <<>>, normalized |-> <<>>,
              operation |-> JsUndefined]

\* extractToolsFromApi(apiDocs[spec]) is entered.
StartExtraction(spec) ==
  [spec |-> spec, next |-> 1, tools |-> <<>>, usedNames |-> {},
   last |-> NoOutcome]

\* The extractor is in the loops of extractToolsFromApi for a document.
Extracting == extraction.spec \in 1..Len(apiDocs)

InitExtract ==
  /\ allowWriteOperations \in BOOLEAN
  /\ recordApiQueries = FALSE
  /\ allTools = <<>>
  /\ droppedTools = {}
  /\ transports = [t \in TransportIds |-> FreshTransport]
  /\ sessionData = NoSessions
  /\ servers = {}
  /\ calls = EmptyBag
  /\ lastResp = NoResp
  /\ finished = NoCall
  /\ shutdown = NoShutdown
  /\ apiDocs \in ExtractionInputs
  /\ defaultInclude \in BOOLEAN
  /\ extraction = StartExtraction(1)
  /\ rawTools = <<>>
  /\ schemaGraph = NoGraph
  /\ translation = NotTranslating

\* One iteration of the loops of extractToolsFromApi.
ExtractNext ==
  /\ Extracting
  /\ LET api == apiDocs[extraction.spec]
         operations == Operations(api)
     IN /\ extraction.next <= Len(operations)
        /\ LET outcome == ExtractOperation(api, operations[extraction.next],
                                           extraction.usedNames, defaultInclude)
           IN extraction' =
                [extraction EXCEPT
                   !.next = @ + 1,
                   !.tools = IF outcome.skipped THEN @ ELSE Append(@, outcome.tool),
                   !.usedNames = IF outcome.skipped THEN @
                                 ELSE @ \cup {outcome.tool.name},
                   !.last = outcome]
  /\ UNCHANGED <<allowWriteOperations, recordApiQueries, allTools, droppedTools,
                 transports, sessionData, servers, calls, lastResp, finished,
                 shutdown, apiDocs, defaultInclude, rawTools, schemaGraph,
                 translation>>

\* extractToolsFromApi returns its tools to generateTools, which stamps and
\* filters them, appends the kept ones to rawToolList and goes on to the
\* next document.
DocumentExtracted ==
  /\ Extracting
  /\ extraction.next > Len(Operations(apiDocs[extraction.spec]))
  /\ LET filtered == [k \in DOMAIN extraction.tools |->
                        FilterTool(allowWriteOperations,
                                   apiDocs[extraction.spec].service,
                                   extraction.tools[k])]
         kept == SelectSeq(filtered, LAMBDA f : f.keep)
     IN /\ rawTools' = rawTools \o [k \in DOMAIN kept |-> kept[k].tool]
        /\ droppedTools' =
             droppedTools \cup {filtered[k].tool : k \in
                                  {j \in DOMAIN filtered : filtered[j].byPolicy}}
  /\ extraction' = StartExtraction(extraction.spec + 1)
  /\ UNCHANGED <<allowWriteOperations, recordApiQueries, allTools,
                 transports, sessionData, servers, calls, lastResp, finished,
                 shutdown, apiDocs, defaultInclude, schemaGraph, translation>>

NextExtract == ExtractNext \/ DocumentExtracted

SpecExtract == InitExtract /\ [][NextExtract]_vars

\* =================================================== schema translation
\* mapOpenApiSchemaToJsonSchema works on JavaScript objects, which after
\* dereferencing may be shared and may contain themselves.  The schema
\* objects are the values of schemaGraph.objects; ObjectRef(n) is the object
\* with identity n.
MaxObjects == 3

ObjectIds == 1..MaxObjects

ObjectRef(n) == [type |-> "object", id |-> n]

\* The entries of a properties object, in insertion order.
Entries(entries) == [type |-> "entries", entries |-> entries]

Entry(key, value) == [key |-> key, value |-> value]

\* A schema object: whether it has a $ref key, its type ("none" without the
\* key; always a string in the source document), its nullable flag, whether
\* it has an example key, its properties and its items.
SchemaObject(ref, schemaType, nullable, example, properties, items) ==
  [ref |-> ref, schemaType |-> schemaType, nullable |-> nullable,
   example |-> example, properties |-> properties, items |-> items]

\* A translated schema.  Its type is the list of type names: none, one (a
\* string in the code) or two (an array in the code).
JsonSchema(schemaType, example, properties, items) ==
  [type |-> "schema", schemaType |-> schemaType, example |-> example,
   properties |-> properties, items |-> items]

\* { type: "object" }
GenericObject == JsonSchema(<<"object">>, FALSE, JsUndefined, JsUndefined)

\* console.warn of mapOpenApiSchemaToJsonSchema, for the object it was
\* called with.
SchemaWarning(msg, id) == [msg |-> msg, id |-> id]

\* const jsonSchema = { ...schema } and the statements of lines 160-178 on
\* it: integer becomes number, the vendor keys are deleted, nullable adds
\* null to the type.
CopySchema(schema) ==
  LET converted == IF schema.schemaType = "integer" THEN <<"number">>
                   ELSE IF schema.schemaType = "none" THEN <<>>
                   ELSE <<schema.schemaType>>
  IN JsonSchema(IF schema.nullable THEN converted \o <<"null">> ELSE converted,
                FALSE, schema.properties, schema.items)

\* One activation of mapOpenApiSchemaToJsonSchema between seen.add and the
\* return: the object, jsonSchema, the loop over the properties and the
\* translated items.
Frame(id, jsonSchema) ==
  [id |-> id, jsonSchema |-> jsonSchema, next |-> 1, mappedProps |-> <<>>,
   itemsDone |-> FALSE]

\* jsonSchema.type === "object" && jsonSchema.properties
RecursesProperties(frame) ==
  /\ frame.jsonSchema.schemaType = <<"object">>
  /\ schemaGraph.objects[frame.id].properties.type = "entries"

\* jsonSchema.type === "array" && typeof jsonSchema.items === "object" &&
\* jsonSchema.items !== null
RecursesItems(frame) ==
  /\ frame.jsonSchema.schemaType = <<"array">>
  /\ schemaGraph.objects[frame.id].items.type = "object"

\* The loop over the properties has an entry left.
PendingProperty(frame) ==
  /\ RecursesProperties(frame)
  /\ frame.next <= Len(schemaGraph.objects[frame.id].properties.entries)

PendingItems(frame) ==
  ~PendingProperty(frame) /\ RecursesItems(frame) /\ ~frame.itemsDone

\* The value the activation on top of the stack looks at next.
PendingValue(frame) ==
  IF PendingProperty(frame)
  THEN schemaGraph.objects[frame.id].properties.entries[frame.next].value
  ELSE schemaGraph.objects[frame.id].items

Translating == translation.pc = "running" /\ translation.stack # <<>>

TopFrame == translation.stack[Len(translation.stack)]

\* Whether a call of mapOpenApiSchemaToJsonSchema is about to be made, and
\* its schema argument: the root at the start, afterwards an object-valued
\* property or the items of the activation on top.
CallPending ==
  \/ translation.pc = "called"
  \/ /\ Translating
     /\ PendingProperty(TopFrame) \/ PendingItems(TopFrame)
     /\ PendingValue(TopFrame).type = "object"

CallArgument ==
  IF translation.pc = "called" THEN schemaGraph.root ELSE PendingValue(TopFrame)

\* A call returns result to its caller: to the property loop or the items
\* assignment of the activation below it, or to the caller of the
\* translation.
Deliver(stack, result) ==
  IF stack = <<>> THEN [pc |-> "returned", stack |-> <<>>, result |-> result]
  ELSE LET frame == stack[Len(stack)]
           key == schemaGraph.objects[frame.id].properties.entries[frame.next].key
       IN [pc |-> "running",
           stack |-> [stack EXCEPT ![Len(stack)] =
                        IF PendingProperty(frame)
                        THEN [frame EXCEPT
                                !.mappedProps = Append(@, Entry(key, result)),
                                !.next = @ + 1]
                        ELSE [frame EXCEPT
                                !.jsonSchema.items = result,
                                !.itemsDone = TRUE]],
           result |-> JsUndefined]

Translation(pc, stack, seen, warnings, result) ==
  [pc |-> pc, stack |-> stack, seen |-> seen, warnings |-> warnings,
   result |-> result]

\* The translation is called with the root schema.
StartTranslation == Translation("called", <<>>, {}, <<>>, JsUndefined)

OtherThanTranslation ==
  <<allowWriteOperations, recordApiQueries, allTools, droppedTools,
    transports, sessionData, servers, calls, lastResp, finished, shutdown,
    apiDocs, defaultInclude, extraction, rawTools, schemaGraph>>

\* "$ref" in schema, line 142, with a boolean: the in operator throws a
\* TypeError for a value that is not an object.
MapSchemaRaises ==
  /\ CallPending
  /\ CallArgument.type = "boolean"
  /\ translation' = [translation EXCEPT !.pc = "raised"]
  /\ UNCHANGED OtherThanTranslation

\* Lines 142-145: the object has a $ref key.
MapSchemaUnresolved ==
  /\ CallPending
  /\ CallArgument.type = "object"
  /\ schemaGraph.objects[CallArgument.id].ref
  /\ LET returned == Deliver(translation.stack, GenericObject)
     IN translation' =
          Translation(returned.pc, returned.stack, translation.seen,
                      Append(translation.warnings,
                             SchemaWarning("Unresolved $ref", CallArgument.id)),
                      returned.result)
  /\ UNCHANGED OtherThanTranslation

\* Lines 149-154: seen has the object.
MapSchemaCycle ==
  /\ CallPending
  /\ CallArgument.type = "object"
  /\ ~schemaGraph.objects[CallArgument.id].ref
  /\ CallArgument.id \in translation.seen
  /\ LET returned == Deliver(translation.stack, GenericObject)
     IN translation' =
          Translation(returned.pc, returned.stack, translation.seen,
                      Append(translation.warnings,
                             SchemaWarning("Cycle detected", CallArgument.id)),
                      returned.result)
  /\ UNCHANGED OtherThanTranslation

\* An entry that does not look at seen.
MapSchemaEnters_Unguarded ==
  /\ CallPending
  /\ CallArgument.type = "object"
  /\ ~schemaGraph.objects[CallArgument.id].ref
  /\ translation' =
       Translation("running",
                   Append(translation.stack,
                          Frame(CallArgument.id,
                                CopySchema(schemaGraph.objects[CallArgument.id]))),
                   translation.seen \cup {CallArgument.id},
                   translation.warnings, JsUndefined)
  /\ UNCHANGED OtherThanTranslation

\* Lines 155-178: the object is added to seen and copied.
MapSchemaEnters ==
  /\ CallPending
  /\ CallArgument.type = "object"
  /\ ~schemaGraph.objects[CallArgument.id].ref
  /\ CallArgument.id \notin translation.seen
  /\ translation' =
       Translation("running",
                   Append(translation.stack,
                          Frame(CallArgument.id,
                                CopySchema(schemaGraph.objects[CallArgument.id]))),
                   translation.seen \cup {CallArgument.id},
                   translation.warnings, JsUndefined)
  /\ UNCHANGED OtherThanTranslation

\* Lines 188-190: a boolean property value is copied.
MapSchemaCopiesBoolean ==
  /\ Translating
  /\ PendingProperty(TopFrame)
  /\ PendingValue(TopFrame).type = "boolean"
  /\ LET returned == Deliver(translation.stack, PendingValue(TopFrame))
     IN translation' = [translation EXCEPT !.stack = returned.stack]
  /\ UNCHANGED OtherThanTranslation

\* A return that leaves the object in seen.
MapSchemaReturns_KeepingSeen ==
  /\ Translating
  /\ ~PendingProperty(TopFrame)
  /\ ~PendingItems(TopFrame)
  /\ LET frame == TopFrame
         jsonSchema ==
           IF RecursesProperties(frame)
           THEN [frame.jsonSchema EXCEPT
                   !.properties = [type |-> "mapped", entries |-> frame.mappedProps]]
           ELSE frame.jsonSchema
         returned == Deliver(SubSeq(translation.stack, 1, Len(translation.stack) - 1),
                             jsonSchema)
     IN translation' =
          Translation(returned.pc, returned.stack, translation.seen,
                      translation.warnings, returned.result)
  /\ UNCHANGED OtherThanTranslation

\* Lines 192 and 205-208: the loops are over; mappedProps replaces the
\* properties when they were looked at, jsonSchema is returned and the
\* object is deleted from seen.
MapSchemaReturns ==
  /\ Translating
  /\ ~PendingProperty(TopFrame)
  /\ ~PendingItems(TopFrame)
  /\ LET frame == TopFrame
         jsonSchema ==
           IF RecursesProperties(frame)
           THEN [frame.jsonSchema EXCEPT
                   !.properties = [type |-> "mapped", entries |-> frame.mappedProps]]
           ELSE frame.jsonSchema
         returned == Deliver(SubSeq(translation.stack, 1, Len(translation.stack) - 1),
                             jsonSchema)
     IN translation' =
          Translation(returned.pc, returned.stack,
                      translation.seen \ {frame.id},
                      translation.warnings, returned.result)
  /\ UNCHANGED OtherThanTranslation

\* ---------------------------------------------------- schemas to translate
\* The object after object i, the first one after the last.
NextObject(i) == ObjectRef((i % MaxObjects) + 1)

Properties2(a, b) == Entries(<<Entry("p", a), Entry("q", b)>>)

\* The shapes of schema object i: objects whose properties are itself, the
\* next object (once or twice), the root and booleans; arrays of the same;
\* an integer with vendor keys; a $ref object; a nullable object; a string
\* with properties.
ShapesOf(i) ==
  <<SchemaObject(FALSE, "object", FALSE, FALSE,
                 Properties2(ObjectRef(i), JsBoolean(TRUE)), JsUndefined),
    SchemaObject(FALSE, "object", FALSE, FALSE,
                 Properties2(NextObject(i), NextObject(i)), JsUndefined),
    SchemaObject(FALSE, "object", FALSE, FALSE,
                 Properties2(NextObject(i), ObjectRef(1)), JsUndefined),
    SchemaObject(FALSE, "object", FALSE, TRUE,
                 Properties2(JsBoolean(TRUE), JsBoolean(FALSE)), JsUndefined),
    SchemaObject(FALSE, "object", FALSE, FALSE,
                 Properties2(JsBoolean(FALSE), NextObject(i)), JsUndefined),
    SchemaObject(FALSE, "object", FALSE, FALSE, JsUndefined, JsUndefined),
    SchemaObject(FALSE, "array", FALSE, FALSE, JsUndefined, ObjectRef(i)),
    SchemaObject(FALSE, "array", FALSE, FALSE, JsUndefined, NextObject(i)),
    SchemaObject(FALSE, "array", FALSE, FALSE, JsUndefined, JsBoolean(TRUE)),
    SchemaObject(FALSE, "integer", TRUE, TRUE, JsUndefined, JsUndefined),
    SchemaObject(FALSE, "none", TRUE, FALSE, JsUndefined, JsUndefined),
    SchemaObject(TRUE, "none", FALSE, FALSE, JsUndefined, JsUndefined),
    SchemaObject(FALSE, "object", TRUE, FALSE,
                 Properties2(NextObject(i), JsBoolean(TRUE)), JsUndefined),
    SchemaObject(FALSE, "string", FALSE, FALSE,
                 Properties2(ObjectRef(i), JsBoolean(FALSE)), JsUndefined)>>

SchemaHeaps ==
  { [i \in ObjectIds |-> ShapesOf(i)[shape[i]]] :
      shape \in [ObjectIds -> DOMAIN ShapesOf(1)] }

\* The translation is called with the first object of a heap, or with a
\* boolean schema.
SchemaGraphs ==
  { [root |-> ObjectRef(1), objects |-> heap] : heap \in SchemaHeaps }
  \cup { [root |-> JsBoolean(b),
          objects |-> [i \in ObjectIds |-> ShapesOf(i)[6]]] : b \in BOOLEAN }

InitSchema ==
  /\ allowWriteOperations = FALSE
  /\ recordApiQueries = FALSE
  /\ allTools = <<>>
  /\ droppedTools = {}
  /\ transports = [t \in TransportIds |-> FreshTransport]
  /\ sessionData = NoSessions
  /\ servers = {}
  /\ calls = EmptyBag
  /\ lastResp = NoResp
  /\ finished = NoCall
  /\ shutdown = NoShutdown
  /\ apiDocs = <<>>
  /\ defaultInclude = TRUE
  /\ extraction = NotExtracting
  /\ rawTools = <<>>
  /\ schemaGraph \in SchemaGraphs
  /\ translation = StartTranslation

NextSchema ==
  \/ MapSchemaRaises
  \/ MapSchemaUnresolved
  \/ MapSchemaCycle
  \/ MapSchemaEnters
  \/ MapSchemaCopiesBoolean
  \/ MapSchemaReturns

SpecSchema == InitSchema /\ [][NextSchema]_vars

\* The translation is one synchronous call: it runs on until it returns or
\* throws.
SpecSchemaFair == SpecSchema /\ WF_vars(NextSchema)

\* =============================================================== claims
\* The transport whose session id is sid.
TransportOf(sid) == CHOOSE t \in TransportIds : transports[t].sessionId = sid

IsTransportOf(sid) == \E t \in TransportIds : transports[t].sessionId = sid

\* The calls in flight.
InFlight == BagToSet(calls)

\* The dispatched calls the state shows: in flight, or just completed.
Dispatched ==
  InFlight \cup (IF finished.pc = "done" /\ finished.dispatched THEN {finished} ELSE {})

CatalogNames == {allTools[k].name : k \in 1..Len(allTools)}

\* C1: every session id in the registry was generated for a transport whose
\* initialization request carried a bearer credential that the identity check
\* accepted, and the entry holds that credential; a transport whose identity
\* check answered a non-success status or failed on the network, or whose
\* request carried no bearer credential, has no entry.
C1_RegisteredOnlyAfterValidInit ==
  /\ \A sid \in DOMAIN sessionData :
       /\ IsTransportOf(sid)
       /\ LET tr == transports[TransportOf(sid)]
          IN /\ tr.init = "stored"
             /\ TokenPresent(extractBearerToken(tr.authHeader))
             /\ sessionData[sid].token = extractBearerToken(tr.authHeader)
  /\ \A t \in TransportIds :
       transports[t].init \in {"status401", "network", "notoken", "validating"}
         => transports[t].sessionId \notin DOMAIN sessionData

C1_Witness ==
  /\ \E sid \in DOMAIN sessionData : transports[TransportOf(sid)].init = "stored"
  /\ \E t \in TransportIds : transports[t].init \in {"status401", "network"}

\* A session that was registered and is no longer in the registry.
Closed(sid) ==
  /\ IsTransportOf(sid)
  /\ transports[TransportOf(sid)].init = "stored"
  /\ sid \notin DOMAIN sessionData

\* A step in which a request carrying session id sid reaches a handler.
RequestCarrying(sid) ==
  \/ \E isInit \in BOOLEAN : PostRejected(sid, isInit)
  \/ PostList(sid)
  \/ \E creq \in CallRequests : PostCall(sid, creq)
  \/ McpGet(sid)
  \/ McpDelete(sid)

\* C2: a DELETE of a registered session, the closure of its transport and
\* its shutdown iteration each leave the session id absent from the registry;
\* once a registered session is absent it stays absent, and every request
\* carrying its id is answered 400 without a List or Call being served.
C2_ClosedSessionStaysClosed ==
  [][\A sid \in SessionIds :
       /\ (HasSession(sessionData, sid) /\
             (McpDelete(sid) \/ ShutdownClosesSession(sid)
                \/ TransportCloses(sessionData[sid].transport)))
            => sid \notin DOMAIN sessionData'
       /\ Closed(sid) => sid \notin DOMAIN sessionData'
       /\ (Closed(sid) /\ RequestCarrying(sid))
            => /\ lastResp'.status = 400
               /\ finished' = NoCall
               /\ calls' = calls]_vars

C2_Witness ==
  \E sid \in SessionIds :
    /\ Closed(sid)
    /\ lastResp.sessionId = sid
    /\ lastResp.op = "POST"
    /\ lastResp.status = 400

\* The tool names a session bound to category may list.
Listable(category) ==
  IF category = "all"
  THEN {n \in CatalogNames : \E c \in DOMAIN allCategories :
                               \E i \in DOMAIN allCategories[c] : allCategories[c][i] = n}
  ELSE {n \in CatalogNames : \E i \in DOMAIN allCategories[category] :
                               allCategories[category][i] = n}

\* A List that was answered with tools in the last step.
ListAnswered ==
  finished.pc = "done" /\ finished.kind = "list" /\ finished.outcome.type = "tools"

\* C3: the tools a List returns to a registered session are exactly the
\* catalog tools named by the session's category, or by any category when the
\* session is bound to "all"; each is returned once.
C3_ListIsCategorySubset ==
  ListAnswered =>
    LET listed == finished.outcome.tools
        category == sessionData[finished.sessionId].category
    IN /\ {listed[k].name : k \in DOMAIN listed} = Listable(category)
       /\ Len(listed) = Cardinality(Listable(category))

C3_Witness ==
  /\ ListAnswered
  /\ sessionData[finished.sessionId].category = "all"
  /\ "headPing" \in CatalogNames
  /\ "getWidget" \in {finished.outcome.tools[k].name : k \in DOMAIN finished.outcome.tools}
  /\ "headPing" \notin {finished.outcome.tools[k].name : k \in DOMAIN finished.outcome.tools}

\* C4: a Call from a registered session for a tool of the catalog is
\* dispatched, whether or not the session's category names the tool: the step
\* adds one call in flight for that tool and rejects nothing.
C4_CallNotGatedByCategory ==
  [][\A sid \in SessionIds : \A creq \in CallRequests :
       (PostCall(sid, creq) /\ creq.name \in CatalogNames)
         => /\ finished' = NoCall
            /\ \E c \in BagToSet(calls') :
                 /\ c.pc = "fetching" /\ c.sessionId = sid /\ c.name = creq.name
                 /\ allTools[c.tool].name = creq.name
                 /\ c.request.method = ToUpperCase(allTools[c.tool].method)
                 /\ CopiesIn(c, calls') = CopiesIn(c, calls) + 1]_vars

C4_Witness ==
  \E c \in InFlight :
    /\ c.category = "readonly"
    /\ c.name = "headPing"
    /\ c.name \notin Listable(c.category)

\* C5: every upstream request of a call of session s carries the bearer
\* credential of the initialization request of s.
C5_RequestCarriesOwnCredential ==
  \A c \in Dispatched :
    /\ IsTransportOf(c.sessionId)
    /\ c.request.authorization =
         <<"Bearer ", extractBearerToken(transports[TransportOf(c.sessionId)].authHeader)>>

C5_Witness ==
  \E c1 \in InFlight : \E c2 \in InFlight :
    /\ c1.sessionId # c2.sessionId
    /\ c1.request.authorization # c2.request.authorization
    /\ c1.name = c2.name

\* The access records of a completed call carry the values c captured.
RecordsFrom(c, done) ==
  \A i \in DOMAIN done.records :
    /\ done.records[i].category = c.category
    /\ done.records[i].payload.userAgent = c.userAgent
    /\ done.records[i].endpoint = c.request.fullUrl

\* C6: no step removes a call in flight other than its own completion, also
\* not the closing of its session; the completion yields content or a
\* reported error and uses the credential, category and user agent the call
\* captured when it was dispatched.
C6_CloseDoesNotAbortCall ==
  [][\A c \in BagToSet(calls) :
       \/ CopiesIn(c, calls') >= CopiesIn(c, calls)
       \/ /\ CopiesIn(c, calls') = CopiesIn(c, calls) - 1
          /\ finished'.pc = "done" /\ finished'.dispatched
          /\ finished'.sessionId = c.sessionId
          /\ finished'.request = c.request
          /\ finished'.bearerToken = c.bearerToken
          /\ finished'.category = c.category
          /\ finished'.userAgent = c.userAgent
          /\ finished'.outcome.type \in {"content", "error"}
          /\ RecordsFrom(c, finished')]_vars

C6_Witness ==
  /\ finished.pc = "done" /\ finished.dispatched
  /\ finished.outcome.type = "content"
  /\ Closed(finished.sessionId)

HasDiagnostic(tool, severity, msg) ==
  \E i \in DOMAIN tool.logs :
    tool.logs[i].severity = severity /\ tool.logs[i].msg = msg

WriteMethods == {"POST", "PUT", "PATCH", "DELETE"}

\* C7: with allowWriteOperations false every catalog tool has method GET, HEAD
\* or OPTIONS, no upstream request has method POST, PUT, PATCH or DELETE, and
\* every extracted tool with another method was dropped with the INFO
\* diagnostic "operation disabled by configuration".
C7_ReadOnlyPolicy ==
  ~allowWriteOperations =>
    /\ \A k \in DOMAIN allTools :
         ToUpperCase(allTools[k].method) \in {"GET", "HEAD", "OPTIONS"}
    /\ \A c \in Dispatched : c.request.method \notin WriteMethods
    /\ \A i \in DOMAIN openApiSpecs :
         \A j \in DOMAIN ExtractedTools(openApiSpecs[i]) :
           LET tool == ExtractedTools(openApiSpecs[i])[j]
           IN ToUpperCase(tool.method) \notin {"GET", "HEAD", "OPTIONS"}
                => /\ tool.name \notin CatalogNames
                   /\ \E d \in droppedTools :
                        /\ d.name = tool.name
                        /\ HasDiagnostic(d, "INFO", "operation disabled by configuration")

C7_Witness ==
  /\ ~allowWriteOperations
  /\ \E c \in InFlight : c.request.method = "GET"
  /\ \E d \in droppedTools : d.name = "deleteWidget"

\* A Call that was dispatched completed in the last step.
CallCompleted == finished.pc = "done" /\ finished.kind = "call" /\ finished.dispatched

\* C8: a Call whose fetch failed, or whose upstream response has a
\* non-success status, ends in a reported error; for a non-success status the
\* error carries the status and the response body.
C8_UpstreamFailureReported ==
  CallCompleted =>
    /\ (~finished.response.present) => finished.outcome.type = "error"
    /\ (finished.response.present /\ ~Ok(finished.response.status))
         => /\ finished.outcome.type = "error"
            /\ finished.outcome.message[2][1] = "HTTP"
            /\ finished.outcome.message[2][2] = finished.response.status
            /\ Len(finished.outcome.message[2]) = 3

\* The part of C8 the handler keeps: such a Call never ends in content.
C8_FailureNeverContent ==
  (CallCompleted /\
     (~finished.response.present \/ ~Ok(finished.response.status)))
    => finished.outcome.type = "error"

\* C9: a Call naming a tool that is not in the catalog is answered with the
\* error "Unknown tool", sends no upstream request and changes neither
\* registry nor any transport; the session can still List and Call.
C9_UnknownToolLeavesSession ==
  [][\A sid \in SessionIds : \A creq \in CallRequests :
       (PostCall(sid, creq) /\ creq.name \notin CatalogNames)
         => /\ finished'.pc = "done" /\ ~finished'.dispatched
            /\ finished'.outcome = UnknownTool(creq.name)
            /\ finished'.records = <<>>
            /\ calls' = calls
            /\ sessionData' = sessionData
            /\ servers' = servers
            /\ transports' = transports
            /\ HasSession(sessionData', sid)
            /\ ListTools(sessionData', sid).type = "tools"]_vars

C9_Witness ==
  /\ finished.pc = "done" /\ finished.kind = "call" /\ ~finished.dispatched
  /\ finished.outcome.message[1] = "Unknown tool"
  /\ HasSession(sessionData, finished.sessionId)

\* C10 as claimed: with recording enabled every Call attempt, also one that
\* fails before the upstream request, hands an access record to the logger.
C10_EveryAttemptRecorded ==
  (recordApiQueries /\ finished.pc = "done" /\ finished.kind = "call")
    => Len(finished.records) >= 1

\* C10 as amended: with recording enabled every Call that resolved its tool
\* and sent its request hands at least one access record, each with the
\* endpoint of the request, the method and user agent as payload and the
\* response status (0 when no response arrived); a Call rejected for its
\* session or its tool name hands none, and with recording disabled no Call
\* hands any.
C10_DispatchedCallsRecorded ==
  (finished.pc = "done" /\ finished.kind = "call") =>
    /\ (recordApiQueries /\ finished.dispatched) => Len(finished.records) >= 1
    /\ ~finished.dispatched => finished.records = <<>>
    /\ ~recordApiQueries => finished.records = <<>>
    /\ finished.dispatched =>
         \A i \in DOMAIN finished.records :
           /\ finished.records[i].endpoint = finished.request.fullUrl
           /\ finished.records[i].payload =
                [method |-> finished.request.method, userAgent |-> finished.userAgent]
           /\ finished.records[i].return_code =
                IF finished.response.present THEN finished.response.status ELSE 0

C10_Witness ==
  /\ recordApiQueries
  /\ CallCompleted
  /\ ~finished.response.present
  /\ Len(finished.records) = 1
  /\ finished.records[1].return_code = 0

\* C11: every registered session is bound to the category of the URL of its
\* initialization request when that is a key of the category map, and to
\* "all" when it is another name or absent; its entry holds the request's
\* user agent ("unknown" without the header) and its own transport, and its
\* identifier is the identifier of no other transport.
C11_BoundToRequestedCategory ==
  /\ \A sid \in DOMAIN sessionData :
       /\ IsTransportOf(sid)
       /\ LET t == TransportOf(sid)
              tr == transports[t]
          IN /\ tr.urlCategory \in {"readonly", "admin"}
                  => sessionData[sid].category = tr.urlCategory
             /\ tr.urlCategory \notin {"readonly", "admin"}
                  => sessionData[sid].category = "all"
             /\ tr.userAgent # Undefined
                  => sessionData[sid].userAgent = tr.userAgent
             /\ tr.userAgent = Undefined
                  => sessionData[sid].userAgent = "unknown"
             /\ sessionData[sid].transport = t
  /\ \A t \in TransportIds : \A u \in TransportIds :
       (t # u /\ transports[t].sessionId # NoSession)
         => transports[t].sessionId # transports[u].sessionId

C11_Witness ==
  \E s1 \in DOMAIN sessionData : \E s2 \in DOMAIN sessionData :
    /\ transports[TransportOf(s1)].urlCategory = "admin"
    /\ sessionData[s1].category = "admin"
    /\ transports[TransportOf(s2)].urlCategory \in {"bogus", Undefined}
    /\ sessionData[s2].category = "all"
    /\ sessionData[s2].userAgent = "unknown"


\* C12: tool names are pairwise distinct across the whole aggregated catalog
\* built from all services, also when two operations, of one document or of
\* the documents of two services, have the same explicit or generated base
\* name.
C12_NamesDistinctAcrossCatalog ==
  \A i \in DOMAIN rawTools : \A j \in DOMAIN rawTools :
    i # j => rawTools[i].name # rawTools[j].name

\* The part of C12 that holds: the names compiled from one document are
\* pairwise distinct, in the list being built and in the aggregated catalog.
C12_NamesDistinctWithinService ==
  /\ \A i \in DOMAIN extraction.tools : \A j \in DOMAIN extraction.tools :
       i # j => extraction.tools[i].name # extraction.tools[j].name
  /\ \A i \in DOMAIN rawTools : \A j \in DOMAIN rawTools :
       i # j /\ rawTools[i].service = rawTools[j].service
         => rawTools[i].name # rawTools[j].name

\* The alphabet of tool names.
NameAlphabet ==
  { "a", "b", "c", "d", "e", "f", "g", "h", "i", "j", "k", "l", "m",
    "n", "o", "p", "q", "r", "s", "t", "u", "v", "w", "x", "y", "z",
    "A", "B", "C", "D", "E", "F", "G", "H", "I", "J", "K", "L", "M",
    "N", "O", "P", "Q", "R", "S", "T", "U", "V", "W", "X", "Y", "Z",
    "0", "1", "2", "3", "4", "5", "6", "7", "8", "9", "_", "-" }

\* C13: every tool name the compiler produces is non-empty and made of the
\* characters A-Z, a-z, 0-9, _ and - only, whatever the explicit or generated
\* base name, and also after a collision suffix was appended.
C13_NamesInAlphabet ==
  \A k \in DOMAIN extraction.tools :
    LET name == extraction.tools[k].name
    IN /\ Len(name) > 0
       /\ \A i \in DOMAIN name : name[i] \in NameAlphabet

\* A document compiled to a_b (from a.b), a_b_1 (a_b, suffixed) and __x
\* (from "@ x").
C13_Witness ==
  /\ Len(extraction.tools) = 3
  /\ extraction.tools[1].operationId = <<"a", ".", "b">>
  /\ extraction.tools[1].name = <<"a", "_", "b">>
  /\ extraction.tools[2].operationId = <<"a", "_", "b">>
  /\ extraction.tools[2].name = <<"a", "_", "b", "_", "1">>
  /\ extraction.tools[3].operationId = <<"@", " ", "x">>
  /\ extraction.tools[3].name = <<"_", "_", "x">>

\* The (path, method) pair the last iteration of the extraction loop handled.
LastEntry == Operations(apiDocs[extraction.spec])[extraction.next - 1]

\* An iteration of the loop has been made in the document being extracted.
IterationDone == Extracting /\ extraction.next > 1

\* The raw flags of the last pair: operation, path item, root.
LastFlags ==
  <<LastEntry.rawOperation.xmcp, LastEntry.pathItem.xmcp,
    apiDocs[extraction.spec].xmcp>>

\* C14: the inclusion decision is the value of the first of operation, path
\* item, root whose raw flag normalizes to a boolean, and defaultInclude when
\* none does; an operation-level true or false decides whatever the other
\* levels and defaultInclude are.
C14_Precedence ==
  IterationDone =>
    LET decided == {k \in 1..3 : normalizeBoolean(LastFlags[k]).type = "boolean"}
        first == CHOOSE k \in decided : \A j \in decided : k <= j
        expected == IF decided = {} THEN defaultInclude
                    ELSE normalizeBoolean(LastFlags[first]).bool
    IN /\ extraction.last.skipped = ~expected
       /\ LastFlags[1].type = "boolean"
            => extraction.last.skipped = ~LastFlags[1].bool

\* An operation flagged "off" is left out although its path item says true,
\* the root flag is malformed and defaultInclude is true.
C14_Witness ==
  /\ IterationDone
  /\ LastFlags = <<JsString(<<"o", "f", "f">>), JsBoolean(TRUE),
                   JsString(<<"m", "a", "y", "b", "e">>)>>
  /\ defaultInclude
  /\ extraction.last.skipped

\* The raw flag values that mean true, that mean false, and the malformed
\* ones, as the specification of the flag lists them.
TrueFlags ==
  { JsBoolean(TRUE), JsString(<<"t", "r", "u", "e">>), JsString(<<"T", "R", "U", "E">>),
    JsString(<<" ", "t", "r", "u", "e", " ">>), JsString(<<"1">>), JsString(<<"y", "e", "s">>),
    JsString(<<"o", "n">>), JsString(<<" ", "O", "n", "\t">>), JsString(<<"Y", "e", "s">>) }

FalseFlags ==
  { JsBoolean(FALSE), JsString(<<"f", "a", "l", "s", "e">>), JsString(<<"F", "A", "L", "S", "E">>),
    JsString(<<" ", "f", "a", "l", "s", "e", " ">>), JsString(<<"0">>), JsString(<<"n", "o">>),
    JsString(<<"o", "f", "f">>), JsString(<<"O", "F", "F">>) }

MalformedFlags ==
  { JsNull, JsString(<<>>), JsString(<<"m", "a", "y", "b", "e">>),
    JsString(<<"2">>), JsNumber(1), JsNumber(0),
    JsObject }

LevelNames == <<"operation", "path", "root">>

\* C15: a malformed flag never decides: it is skipped with a warning and the
\* next level is asked; when all three levels are malformed or unset the
\* decision is defaultInclude; the operation is compiled or left out
\* accordingly and the operations after it are still compiled.
C15_MalformedNeverDecides ==
  IterationDone =>
    LET valid == {k \in 1..3 : LastFlags[k] \in TrueFlags \cup FalseFlags}
        asked == {k \in 1..3 : \A j \in valid : k <= j}
        expected == IF valid = {} THEN defaultInclude
                    ELSE \E k \in valid \cap asked : LastFlags[k] \in TrueFlags
        warned == {k \in 1..3 : \E w \in DOMAIN extraction.last.warnings :
                      extraction.last.warnings[w] =
                        InvalidXMcp(LevelNames[k], LastFlags[k])}
    IN /\ \A k \in 1..3 : LastFlags[k] \in
            TrueFlags \cup FalseFlags \cup MalformedFlags \cup {JsUndefined}
       /\ extraction.last.skipped = ~expected
       /\ warned = {k \in asked : LastFlags[k] \in MalformedFlags}
       /\ Len(extraction.last.warnings) = Cardinality(warned)
       /\ ~extraction.last.skipped =>
            /\ extraction.tools # <<>>
            /\ extraction.tools[Len(extraction.tools)].method = LastEntry.method
            /\ extraction.tools[Len(extraction.tools)].pathTemplate = LastEntry.path

\* With defaultInclude true, a GET whose flags are malformed at all three
\* levels was compiled with three warnings, and so was the PUT after it.
C15_Witness ==
  /\ IterationDone
  /\ defaultInclude
  /\ extraction.next = 3
  /\ Operations(apiDocs[extraction.spec])[1].rawOperation.xmcp = JsString(<<"m", "a", "y", "b", "e">>)
  /\ LastFlags = <<JsUndefined, JsNumber(1), JsNull>>
  /\ Len(extraction.last.warnings) = 2
  /\ Len(extraction.tools) = 2
  /\ extraction.tools[1].method = "get"
  /\ extraction.tools[2].method = "put"

\* C16: normalizeBoolean returns a boolean unchanged, true for a string that
\* trimmed and lower-cased is true, 1, yes or on, false for one that is
\* false, 0, no or off, and undefined for every other value: other strings,
\* numbers, null, objects, undefined.
C16_NormalizeBoolean ==
  \A k \in DOMAIN extraction.last.normalized :
    LET raw == extraction.last.normalized[k].raw
        val == extraction.last.normalized[k].val
    IN /\ raw.type = "boolean" => val = raw
       /\ raw \in TrueFlags => val = JsBoolean(TRUE)
       /\ raw \in FalseFlags => val = JsBoolean(FALSE)
       /\ raw \in MalformedFlags \cup {JsUndefined} => val = JsUndefined
       /\ raw \in TrueFlags \cup FalseFlags \cup MalformedFlags \cup {JsUndefined}

\* The last iteration normalized the number 0 and the string maybe to
\* undefined and the string OFF to false.
C16_Witness ==
  /\ IterationDone
  /\ Len(extraction.last.normalized) = 3
  /\ extraction.last.normalized[1] = [raw |-> JsNumber(0), val |-> JsUndefined]
  /\ extraction.last.normalized[2] =
       [raw |-> JsString(<<"m", "a", "y", "b", "e">>), val |-> JsUndefined]
  /\ extraction.last.normalized[3] =
       [raw |-> JsString(<<"O", "F", "F">>), val |-> JsBoolean(FALSE)]

\* How many diagnostics of the tool are an ERR with the message msg.
ErrCount(tool, msg) ==
  Cardinality({i \in DOMAIN tool.logs :
                 tool.logs[i].severity = "ERR" /\ tool.logs[i].msg = msg})

\* The length of the x-ai-description of a raw operation, 0 without one.
AiLength(rawOperation) ==
  IF rawOperation.xai.type = "string" THEN Len(rawOperation.xai.chars) ELSE 0

\* C17: for every compiled tool the x-ai-description diagnostics depend on
\* the length n of the x-ai-description only: n = 0 gives exactly one ERR
\* "no x-ai-description field" and no length diagnostic, 1 <= n <= 300 gives
\* neither (blanks count), n >= 301 gives exactly one ERR "x-ai-description
\* is too long (>300 chars)" and no absence diagnostic.
C17_AiDescriptionDiagnostics ==
  IterationDone /\ ~extraction.last.skipped =>
    LET n == AiLength(LastEntry.rawOperation)
        absent == ErrCount(extraction.last.tool, "no x-ai-description field")
        long == ErrCount(extraction.last.tool,
                         "x-ai-description is too long (>300 chars)")
    IN /\ n = 0 => absent = 1 /\ long = 0
       /\ n \in 1..300 => absent = 0 /\ long = 0
       /\ n >= 301 => absent = 0 /\ long = 1

\* A tool compiled from an x-ai-description of 300 blanks has neither
\* diagnostic.
C17_Witness ==
  /\ IterationDone
  /\ ~extraction.last.skipped
  /\ LastEntry.rawOperation.xai = JsString(Repeat(" ", 300))
  /\ ErrCount(extraction.last.tool, "no x-ai-description field") = 0
  /\ ErrCount(extraction.last.tool, "x-ai-description is too long (>300 chars)") = 0

\* A text that is present and not empty.
NonEmptyText(v) == v.type = "string" /\ v.chars # <<>>

\* s holds an empty line at position j: two line ends in a row.
EmptyLineAt(s, j) == j + 1 <= Len(s) /\ s[j] = "\n" /\ s[j + 1] = "\n"

\* p is the first paragraph of the text d: p has no empty line in it and
\* stands in d after blanks only and before an empty line or trailing blanks
\* only.
IsFirstParagraph(p, d) ==
  /\ \A j \in DOMAIN p : ~EmptyLineAt(p, j)
  /\ p # <<>> => p[1] \notin {" ", "\t", "\n", "\r"}
  /\ \E i \in 1..(Len(d) + 1) :
       /\ \A j \in 1..(i - 1) : d[j] \in {" ", "\t", "\n", "\r"}
       /\ i + Len(p) - 1 <= Len(d)
       /\ SubSeq(d, i, i + Len(p) - 1) = p
       /\ \/ EmptyLineAt(d, i + Len(p))
          \/ \A j \in (i + Len(p))..Len(d) : d[j] \in {" ", "\t", "\n", "\r"}

\* C18: the description of a compiled tool is the x-ai-description when that
\* is not empty, verbatim, whatever the summary and the description are;
\* else the summary when that is not empty; else the first paragraph of the
\* description, the text before its first empty line; else the empty string.
C18_DescriptionPriority ==
  IterationDone /\ ~extraction.last.skipped =>
    LET raw == LastEntry.rawOperation
        resolved == extraction.last.tool.description
    IN /\ resolved.type = "string"
       /\ IF NonEmptyText(raw.xai) THEN resolved = raw.xai
          ELSE IF NonEmptyText(raw.summary) THEN resolved = raw.summary
          ELSE IF NonEmptyText(raw.description)
          THEN IsFirstParagraph(resolved.chars, raw.description.chars)
          ELSE resolved = JsString(<<>>)

\* Without x-ai-description and with an empty summary, the description
\* " P", empty line, "Q", empty line, "R " resolves to P.
C18_Witness ==
  /\ IterationDone
  /\ ~extraction.last.skipped
  /\ LastEntry.rawOperation.xai = JsNull
  /\ LastEntry.rawOperation.summary = JsString(<<>>)
  /\ LastEntry.rawOperation.description = JsString(<<" ", "P", "\n", "\n", "Q", "\n", "\n", "R", " ">>)
  /\ extraction.last.tool.description = JsString(<<"P">>)

\* The parameters declared for the last pair at the path item and at the
\* operation.
PathLevel == ArrayOrEmpty(LastEntry.pathItem.parameters)

OperationLevel == ArrayOrEmpty(LastEntry.rawOperation.parameters)

SameKey(p, q) == p.name = q.name /\ p.in = q.in

\* The entries of the merged parameter list of a tool with the key of p.
MergedEntries(tool, p) ==
  {k \in DOMAIN tool.parameters : SameKey(tool.parameters[k], p)}

\* C19: a parameter declared with the same name and location at the path
\* item and at the operation has exactly one entry in the merged parameter
\* list of the tool, the operation-level one; a parameter declared at one
\* level only is kept.
C19_OperationParameterWins ==
  IterationDone /\ ~extraction.last.skipped =>
    LET tool == extraction.last.tool
    IN /\ \A i \in DOMAIN OperationLevel :
            \E k \in DOMAIN tool.parameters :
              /\ MergedEntries(tool, OperationLevel[i]) = {k}
              /\ tool.parameters[k] = OperationLevel[i]
       /\ \A j \in DOMAIN PathLevel :
            (\A i \in DOMAIN OperationLevel : ~SameKey(OperationLevel[i], PathLevel[j]))
              => \E k \in DOMAIN tool.parameters :
                   /\ MergedEntries(tool, PathLevel[j]) = {k}
                   /\ tool.parameters[k] = PathLevel[j]

\* The part of C19 that holds: every declared parameter has exactly one
\* merged entry with its name and location, and the entry of a parameter
\* declared at one level only is that parameter.
C19_OneEntryPerKey ==
  IterationDone /\ ~extraction.last.skipped =>
    LET tool == extraction.last.tool
        declared == {OperationLevel[i] : i \in DOMAIN OperationLevel}
                      \cup {PathLevel[j] : j \in DOMAIN PathLevel}
    IN \A p \in declared :
         /\ Cardinality(MergedEntries(tool, p)) = 1
         /\ (\A q \in declared : SameKey(p, q) => q = p)
              => \E k \in MergedEntries(tool, p) : tool.parameters[k] = p

\* The security of the document of the last pair, empty when it has none.
DocumentSecurity ==
  IF apiDocs[extraction.spec].security.type = "array"
  THEN apiDocs[extraction.spec].security
  ELSE JsArray(<<>>)

ActivePath(tr) == {tr.stack[k].id : k \in DOMAIN tr.stack}

\* The value the last call that returned handed to its caller.
LastReturned(tr) ==
  IF tr.pc = "returned" THEN tr.result
  ELSE LET frame == tr.stack[Len(tr.stack)]
       IN IF frame.itemsDone THEN frame.jsonSchema.items
          ELSE frame.mappedProps[Len(frame.mappedProps)].value

\* The translation is over: it returned or it threw.
TranslationOver == translation.pc \in {"returned", "raised"}

\* A call is about to be made with an object that is its own ancestor.
CycleCloses ==
  /\ CallPending
  /\ CallArgument.type = "object"
  /\ ~schemaGraph.objects[CallArgument.id].ref
  /\ CallArgument.id \in ActivePath(translation)

\* C21: the translation of a finite schema graph terminates, also when an
\* object is reachable from itself through properties or items: no object
\* is entered while it is being translated, and the call that closes a cycle
\* returns { type: "object" } and writes a warning instead of recursing.
C21_TranslationTerminates ==
  /\ [](\A j \in DOMAIN translation.stack : \A k \in DOMAIN translation.stack :
          j # k => translation.stack[j].id # translation.stack[k].id)
  /\ [][CycleCloses =>
          /\ Len(translation'.stack) <= Len(translation.stack)
          /\ ActivePath(translation') = ActivePath(translation)
          /\ LastReturned(translation') = GenericObject
          /\ translation'.warnings =
               Append(translation.warnings,
                      SchemaWarning("Cycle detected", CallArgument.id))]_vars
  /\ <>TranslationOver

\* An array whose items are an object that has the array as a property was
\* translated with one cycle warning, for the array.
C21_Witness ==
  /\ translation.pc = "returned"
  /\ schemaGraph.objects[1] = ShapesOf(1)[8]
  /\ schemaGraph.objects[2] = ShapesOf(2)[3]
  /\ \E k \in DOMAIN translation.warnings :
       translation.warnings[k] = SchemaWarning("Cycle detected", 1)
  /\ translation.result.items.properties.entries[2].value = GenericObject

\* The boolean property values the activation frame has looked at are in
\* mappedProps as they were.
BooleanPropertiesCopied(frame) ==
  \A k \in 1..(frame.next - 1) :
    LET entry == schemaGraph.objects[frame.id].properties.entries[k]
    IN entry.value.type = "boolean" => frame.mappedProps[k] = entry

\* C24: translating a boolean schema returns that boolean and raises no
\* error, when the boolean is the schema the translation is called with and
\* when it is the value of an object property.
C24_BooleanSchemaReturned ==
  /\ translation.pc # "raised"
  /\ schemaGraph.root.type = "boolean" /\ translation.pc = "returned"
       => translation.result = schemaGraph.root
  /\ \A j \in DOMAIN translation.stack :
       RecursesProperties(translation.stack[j])
         => BooleanPropertiesCopied(translation.stack[j])

\* The part of C24 that holds: a boolean that is the value of a property of
\* an object schema is copied to the translated properties, and the
\* translation of an object does not raise.
C24_BooleanPropertyCopied ==
  /\ schemaGraph.root.type = "object" => translation.pc # "raised"
  /\ \A j \in DOMAIN translation.stack :
       RecursesProperties(translation.stack[j])
         => BooleanPropertiesCopied(translation.stack[j])
  /\ translation.pc = "returned" /\ schemaGraph.objects[1] = ShapesOf(1)[4]
       /\ schemaGraph.root.type = "object"
       => translation.result.properties.entries =
            <<Entry("p", JsBoolean(TRUE)), Entry("q", JsBoolean(FALSE))>>

\* The step wrote a cycle warning.
CycleWarned ==
  /\ Len(translation'.warnings) = Len(translation.warnings) + 1
  /\ translation'.warnings[Len(translation'.warnings)].msg = "Cycle detected"

\* C30: cycle detection looks at the active recursion path only: the
\* generic object is substituted, with its warning, only in a call whose
\* object is on the path from the root to the current activation; an object
\* that is not on the path, also one that was translated before in a
\* sibling branch, is entered and translated again.
C30_CycleIsOnActivePath ==
  /\ [][/\ CycleWarned => CycleCloses
        /\ (/\ CallPending
            /\ CallArgument.type = "object"
            /\ ~schemaGraph.objects[CallArgument.id].ref
            /\ CallArgument.id \notin ActivePath(translation))
             => /\ Len(translation'.stack) = Len(translation.stack) + 1
                /\ translation'.stack[Len(translation'.stack)].id = CallArgument.id
                /\ translation'.warnings = translation.warnings]_vars
  /\ [](/\ translation.pc = "returned"
        /\ schemaGraph.root.type = "object"
        /\ schemaGraph.objects[1] = ShapesOf(1)[2]
        /\ schemaGraph.objects[2] = ShapesOf(2)[5]
        /\ schemaGraph.objects[3] = ShapesOf(3)[10]
        => /\ translation.warnings = <<>>
           /\ translation.result.properties.entries[1].value =
                translation.result.properties.entries[2].value
           /\ translation.result.properties.entries[2].value.properties.entries[2].value
                = JsonSchema(<<"number", "null">>, FALSE, JsUndefined, JsUndefined))

\* The root has the same object as both of its properties; the object is
\* translated twice, in full, without a warning.
C30_Witness ==
  /\ translation.pc = "returned"
  /\ schemaGraph.root.type = "object"
  /\ schemaGraph.objects[1] = ShapesOf(1)[2]
  /\ schemaGraph.objects[2] = ShapesOf(2)[5]
  /\ schemaGraph.objects[3] = ShapesOf(3)[10]
  /\ translation.warnings = <<>>
  /\ translation.result.properties.entries[1].value # GenericObject
  /\ translation.result.properties.entries[1].value =
       translation.result.properties.entries[2].value

\* The names expected for operations without operationId.
ExpectedGeneratedNames ==
  <<[method |-> "get", path |-> <<"/", "w", "i", "d", "g", "e", "t", "s", "/", "{", "i", "d", "}">>,
     name |-> <<"g", "e", "t", "W", "i", "d", "g", "e", "t", "s", "B", "y", "I", "d">>],
    [method |-> "delete", path |-> <<"/", "w", "i", "d", "g", "e", "t", "s", "/", "{", "i", "d", "}">>,
     name |-> <<"d", "e", "l", "e", "t", "e", "W", "i", "d", "g", "e", "t", "s", "B", "y", "I", "d">>],
    [method |-> "get", path |-> <<"/", "a", "/", "{", "i", "d", "}", "/", "b">>,
     name |-> <<"g", "e", "t", "A", "B">>],
    [method |-> "get", path |-> <<"/", "{", "x", "}", "/", "{", "y", "}">>,
     name |-> <<"g", "e", "t", "B", "y", "Y">>],
    [method |-> "post", path |-> <<"/", "u", "s", "e", "r", "_", "n", "a", "m", "e", "s", "/", "{", "u", "s", "e", "r", "_", "i", "d", "}">>,
     name |-> <<"p", "o", "s", "t", "U", "s", "e", "r", "N", "a", "m", "e", "s", "B", "y", "U", "s", "e", "r", "I", "d">>],
    [method |-> "patch", path |-> <<"/", "J", "o", "b", "-", "T", "e", "m", "p", "l", "a", "t", "e", "s", "/">>,
     name |-> <<"p", "a", "t", "c", "h", "J", "o", "b", "T", "e", "m", "p", "l", "a", "t", "e", "s">>],
    [method |-> "get", path |-> <<"/">>,
     name |-> <<"g", "e", "t">>],
    [method |-> "get", path |-> <<"/", "a", "/", "b">>,
     name |-> <<"g", "e", "t", "A", "B">>],
    [method |-> "get", path |-> <<"/", "a", "-", "b">>,
     name |-> <<"g", "e", "t", "A", "B">>],
    [method |-> "get", path |-> <<"/", "a", "/", "{", "i", "d", "}">>,
     name |-> <<"g", "e", "t", "A", "B", "y", "I", "d">>],
    [method |-> "put", path |-> <<"/", "f">>,
     name |-> <<"p", "u", "t", "F">>],
    [method |-> "get", path |-> <<"/", "f">>,
     name |-> <<"g", "e", "t", "F">>],
    [method |-> "post", path |-> <<"/", "n">>,
     name |-> <<"p", "o", "s", "t", "N">>],
    [method |-> "get", path |-> <<"/", "d">>,
     name |-> <<"g", "e", "t", "D">>],
    [method |-> "get", path |-> <<"/", "p", "/", "{", "i", "d", "}">>,
     name |-> <<"g", "e", "t", "P", "B", "y", "I", "d">>],
    [method |-> "get", path |-> <<"/", "s">>,
     name |-> <<"g", "e", "t", "S">>]>>

C23_NormalizedOperation ==
  IterationDone =>
    LET raw == LastEntry.rawOperation
        operation == extraction.last.operation
    IN /\ operation.xai =
            IF raw.xai.type = "string" /\ raw.xai.chars # <<>> THEN raw.xai
            ELSE JsString(<<>>)
       /\ operation.deprecated = JsBoolean(raw.deprecated = JsBoolean(TRUE))
       /\ operation.operationId = raw.operationId
       /\ operation.summary = raw.summary
       /\ operation.description = raw.description
       /\ operation.parameters = raw.parameters
       /\ operation.requestBody = raw.requestBody
       /\ operation.security = raw.security

\* A deprecated operation with an x-ai-description of 500 characters, a
\* request body, parameters and security was normalized.
C23_Witness ==
  /\ IterationDone
  /\ LastEntry.rawOperation.xai = JsString(Repeat("A", 500))
  /\ LastEntry.rawOperation.deprecated = JsBoolean(TRUE)
  /\ LastEntry.rawOperation.requestBody.type = "body"
  /\ LastEntry.rawOperation.security = JsArray(<<"bearerAuth">>)
  /\ extraction.last.operation.xai = JsString(Repeat("A", 500))
  /\ extraction.last.operation.deprecated = JsBoolean(TRUE)

\* C25: no entry of the session registry refers to a transport that has been
\* closed, whatever the order in which the identity check of an
\* initialization, the closing of transports, DELETE and shutdown take place.
C25_NoEntryForClosedTransport ==
  \A sid \in DOMAIN sessionData :
    transports[sessionData[sid].transport].state # "closed"

\* C26: with access recording enabled, a Call that was dispatched hands
\* exactly one access record to the logger, whether it ends in success, in an
\* upstream non-success status or in a failed fetch.
C26_ExactlyOneRecord ==
  (recordApiQueries /\ CallCompleted) => Len(finished.records) = 1

\* The part of C26 the handler keeps: one record for a success and for a
\* failure of the fetch or of the reading of the body.
C26_OneRecordUnlessStatusThrown ==
  (recordApiQueries /\ CallCompleted
     /\ ~(finished.response.present /\ ~Ok(finished.response.status)
            /\ finished.outcome.message[2][1] = "HTTP"))
    => Len(finished.records) = 1

\* What the initialization request of session sid bound: the credential of
\* its Authorization header, its user agent and the category of its URL.
BoundAtInit(sid) ==
  LET tr == transports[TransportOf(sid)]
  IN [token |-> extractBearerToken(tr.authHeader),
      userAgent |-> RequestUserAgent(tr.userAgent),
      category |-> RequestCategory(tr.urlCategory)]

\* The credential, user agent and category of a registry entry.
BoundIn(sd, sid) ==
  [token |-> sd[sid].token, userAgent |-> sd[sid].userAgent,
   category |-> sd[sid].category]

\* A step that is an operation of session sid: a request carrying its id,
\* the closing of its transport, its shutdown iteration, or the return of
\* the identity check of its initialization.
OperationOf(sid) ==
  \/ RequestCarrying(sid)
  \/ ShutdownClosesSession(sid)
  \/ \E t \in TransportIds :
       /\ transports[t].sessionId = sid
       /\ \/ TransportCloses(t)
          \/ \E o \in ValidationOutcomes : ValidateTokenReturns(t, o)

\* C27: while a session is registered its entry keeps the category,
\* credential and user agent of its initialization request; a List is served
\* for that category and a Call is dispatched with that category, credential
\* and user agent, whatever the URL category and Authorization header of the
\* request that carries the session id; and an operation of one session
\* leaves the registry entry of every other session as it is.
C27_BindingIsStable ==
  /\ [](\A sid \in DOMAIN sessionData : BoundIn(sessionData, sid) = BoundAtInit(sid))
  /\ [][/\ \A sid \in DOMAIN sessionData :
             sid \in DOMAIN sessionData' => sessionData'[sid] = sessionData[sid]
        /\ \A sid \in SessionIds : \A req \in InitRequests :
             PostListOn(sid, req)
               => finished'.outcome =
                    ListResult(filterToolsByCategory(allTools, BoundAtInit(sid).category))
        /\ \A sid \in SessionIds : \A req \in InitRequests : \A creq \in CallRequests :
             (PostCallOn(sid, req, creq) /\ creq.name \in CatalogNames)
               => \E c \in BagToSet(calls') :
                    /\ CopiesIn(c, calls') = CopiesIn(c, calls) + 1
                    /\ c.sessionId = sid
                    /\ [token |-> c.bearerToken, userAgent |-> c.userAgent,
                        category |-> c.category] = BoundAtInit(sid)
                    /\ c.request.authorization = <<"Bearer ", BoundAtInit(sid).token>>
        /\ \A sid \in SessionIds :
             OperationOf(sid)
               => \A other \in SessionIds \ {sid} :
                    /\ (other \in DOMAIN sessionData') = (other \in DOMAIN sessionData)
                    /\ other \in DOMAIN sessionData
                         => sessionData'[other] = sessionData[other]]_vars

\* Two sessions bound to different categories, credentials and user agents
\* are registered, one has a call in flight and a List of the other was
\* just served for its own category.
C27_Witness ==
  \E a \in DOMAIN sessionData : \E b \in DOMAIN sessionData :
    /\ sessionData[a].category = "readonly" /\ sessionData[b].category = "all"
    /\ sessionData[a].token # sessionData[b].token
    /\ sessionData[a].userAgent # sessionData[b].userAgent
    /\ \E c \in InFlight : c.sessionId = b /\ c.bearerToken = sessionData[b].token
    /\ ListAnswered /\ finished.sessionId = a
    /\ finished.outcome =
         ListResult(filterToolsByCategory(allTools, "readonly"))
    /\ finished.outcome #
         ListResult(filterToolsByCategory(allTools, "all"))

\* The names of the path parameters of a tool.
PathParameters(tool) ==
  {tool.parameters[i].name : i \in {j \in DOMAIN tool.parameters :
                                      tool.parameters[j].in = "path"}}

\* The placeholders of the tool's path parameters left in a path.
PlaceholdersLeft(tool, path) ==
  {k \in DOMAIN path : \E p \in PathParameters(tool) : path[k] = "{" \o p \o "}"}

\* C28: when the arguments of a Call supply a value for every path parameter
\* of its tool, the path of the upstream request has no placeholder of a path
\* parameter left, whatever the values are (0, false and the empty string
\* included).
C28_NoPlaceholderLeft ==
  \A c \in Dispatched :
    (\A p \in PathParameters(allTools[c.tool]) : ArgOf(c.args, p) # Undefined)
      => PlaceholdersLeft(allTools[c.tool], c.request.fullUrl.path) = {}

\* The part of C28 the handler keeps: a placeholder is left only for a path
\* parameter whose argument is falsy, or that occurs more than once.
C28_TruthyArgumentSubstituted ==
  \A c \in Dispatched :
    LET tool == allTools[c.tool]
        path == c.request.fullUrl.path
    IN \A k \in PlaceholdersLeft(tool, path) :
         \E p \in PathParameters(tool) :
           /\ path[k] = "{" \o p \o "}"
           /\ \/ ~Truthy(ArgOf(c.args, p))
              \/ \E j \in 1..(k - 1) : tool.pathTemplate[j] = tool.pathTemplate[k]

\* The sessions that were in the registry when shutdown started are closed:
\* their transports are closed and neither registry has their id.
SessionsAtStartClosed ==
  \A sid \in shutdown.keys :
    /\ sid \notin DOMAIN sessionData
    /\ sid \notin servers
    /\ transports[TransportOf(sid)].state = "closed"

\* C29: when the process exits after SIGINT, every session that was in the
\* registry when shutdown started has its transport closed and its entries
\* removed from both registries, and both registries are empty.
C29_ShutdownEmptiesRegistries ==
  shutdown.pc = "exited" =>
    /\ SessionsAtStartClosed
    /\ DOMAIN sessionData = {}
    /\ servers = {}

\* The part of C29 the handler keeps: the sessions registered when shutdown
\* started are closed and removed before the process exits, and the server
\* registry is empty.
C29_SessionsAtStartRemoved ==
  shutdown.pc = "exited" => (SessionsAtStartClosed /\ servers = {})

\* The process exited after closing two sessions.
C29_SessionsAtStartRemoved_Reached ==
  shutdown.pc = "exited" /\ Cardinality(shutdown.keys) = 2

====
